---- MODULE Spec2Model ----
(***************************************************************************)
(* A model of the SCP reference implementation (reference-impl/scp):       *)
(* the generator, the parser, the checksum module, the schema validator    *)
(* and the compression guard.                                              *)
(*                                                                         *)
(* Python and JSON values are tagged records [jt, v]: the tag jt decides   *)
(* the type of the payload v, so two values with the same tag always       *)
(* carry payloads of the same kind.                                        *)
(*                                                                         *)
(* Sizes of text lines are in bytes.  Sizes handled by the compression     *)
(* guard are in KiB (its limits, 50 GB and 500 GB, are multiples of 1 KiB  *)
(* and do not fit a 32-bit integer in bytes).                              *)
(***************************************************************************)
EXTENDS Integers, Sequences, FiniteSets, TLC

\* ------------------------------------------------------------------ bounds
MaxPages == 2
MaxLines == 2
MaxCalls == 1
MaxAgain == 1
MaxStreamKiB == 2048
MaxBlocks == 2

\* ------------------------------------------------- Python / JSON values
JNull == [jt |-> "null", v |-> 0]
JNum(n) == [jt |-> "number", v |-> n]
JStr(s) == [jt |-> "string", v |-> s]
JArr(items) == [jt |-> "array", v |-> items]
JObj(members) == [jt |-> "object", v |-> members]

IsObj(x) == x.jt = "object"
IsArr(x) == x.jt = "array"
\* The tag string "sha256:<hex>": a Python str whose payload records the
\* prefix, the number of hex digits, their case, and the digest they spell.
\* SHA-256 is taken as injective: the digest of a byte string is the byte
\* string itself.
JTag(prefix, ndigits, upper, digest) ==
    [jt |-> "hexstr", v |-> [prefix |-> prefix, ndigits |-> ndigits, upper |-> upper, digest |-> digest]]

IsStr(x) == x.jt \in {"string", "hexstr"}

\* Python truthiness (`if author:`, `if self.since:`, `if self.metadata.checksum:`).
Truthy(x) ==
    CASE x.jt = "null" -> FALSE
      [] x.jt = "number" -> x.v # 0
      [] x.jt = "string" -> x.v # ""
      [] x.jt = "hexstr" -> TRUE
      [] x.jt = "array" -> x.v # <<>>
      [] x.jt = "object" -> DOMAIN x.v # {}

\* Python `key in x`: "ok" with the answer, or TypeError for a value that
\* is not a container (int, None).  A str operand is a substring test; the
\* strings of this model hold a key only when they equal it.
PyIn(key, x) ==
    CASE x.jt = "object" -> [exc |-> "", val |-> key \in DOMAIN x.v]
      [] x.jt = "array" -> [exc |-> "", val |-> \E i \in DOMAIN x.v : x.v[i] = JStr(key)]
      [] x.jt = "string" -> [exc |-> "", val |-> x.v = key]
      [] x.jt = "hexstr" -> [exc |-> "", val |-> FALSE]
      [] OTHER -> [exc |-> "TypeError", val |-> FALSE]

\* Python len(x): TypeError for int and None.
PyLen(x) ==
    CASE x.jt = "object" -> [exc |-> "", val |-> Cardinality(DOMAIN x.v)]
      [] x.jt = "array" -> [exc |-> "", val |-> Len(x.v)]
      [] x.jt = "string" -> [exc |-> "", val |-> IF x.v = "" THEN 0 ELSE 1]
      [] x.jt = "hexstr" -> [exc |-> "", val |-> 7 + x.v.ndigits]
      [] OTHER -> [exc |-> "TypeError", val |-> 0]

\* dict.get(key) with default None.
PyGet(d, key) == IF key \in DOMAIN d.v THEN d.v[key] ELSE JNull

\* A dict with one key set (insertion or overwrite) and with one key removed.
SetKey(d, key, val) ==
    JObj([k \in DOMAIN d.v \cup {key} |-> IF k = key THEN val ELSE d.v[k]])
DelKey(d, key) == JObj([k \in DOMAIN d.v \ {key} |-> d.v[k]])

\* ------------------------------------------------------ text and lines
\* A line of text: blank (empty or whitespace only), garbage (not JSON) or
\* the serialization of a JSON value; size is its UTF-8 length in bytes.
\* A text (the decoded bytes of a document) is the sequence of its lines,
\* as the newline characters cut it.
BlankLine == [kind |-> "blank", val |-> JNull, size |-> 0]
GarbageLine(size) == [kind |-> "garbage", val |-> JNull, size |-> size]
JsonLine(val, size) == [kind |-> "json", val |-> val, size |-> size]

\* A run of one repeated byte, such as b"A" * size: not JSON either.
RunLine(size) == [kind |-> "run", val |-> JNull, size |-> size]

\* A line holding a byte sequence that is not UTF-8.
BadUtf8Line(size) == [kind |-> "badutf8", val |-> JNull, size |-> size]

\* bytes.decode("utf-8"): the text, or UnicodeDecodeError.
decode(data) ==
    IF \E i \in DOMAIN data.text : data.text[i].kind = "badutf8"
    THEN [exc |-> "UnicodeDecodeError", text |-> <<>>]
    ELSE [exc |-> "", text |-> data.text]

\* Length of the compact serialization of a value, in bytes.  Only its
\* relation to MAX_PAGE_SIZE is observable; every value of this model
\* serializes to a short line.
CompactSize(val) == IF IsObj(val) THEN 2 + 16 * Cardinality(DOMAIN val.v) ELSE 4

\* orjson.dumps(x).decode("utf-8"): one line, compact.
dumps(val) == JsonLine(val, CompactSize(val))

\* orjson.loads(line): the value, or JSONDecodeError.
loads(line) ==
    IF line.kind = "json" THEN [exc |-> "", val |-> line.val]
    ELSE [exc |-> "JSONDecodeError", val |-> JNull]

\* str.strip() then split("\n"): the blank lines at both ends go (newlines
\* and spaces are whitespace); what is left is cut at the newlines.  The
\* empty string splits into one empty line.
RECURSIVE LStrip(_)
LStrip(text) ==
    IF text = <<>> THEN <<>>
    ELSE IF Head(text).kind = "blank" THEN LStrip(Tail(text))
    ELSE text

RECURSIVE RStrip(_)
RStrip(text) ==
    IF text = <<>> THEN <<>>
    ELSE IF text[Len(text)].kind = "blank" THEN RStrip(SubSeq(text, 1, Len(text) - 1))
    ELSE text

StripSplit(text) ==
    LET t == RStrip(LStrip(text))
    IN  IF t = <<>> THEN <<BlankLine>> ELSE t

\* "\n".join(lines)
Join(lines) == lines

\* ------------------------------------------------------------ checksum
\* CHECKSUM_PATTERN: "sha256:" and exactly 64 hex digits of either case.
CHECKSUM_PATTERN(tag) ==
    /\ tag.jt = "hexstr"
    /\ tag.v.prefix = "sha256:"
    /\ tag.v.ndigits = 64

\* str.lower() of a tag string.
Lower(tag) == [tag EXCEPT !.v.upper = FALSE]

calculate_checksum(data) == JTag("sha256:", 64, FALSE, data)

\* What validate_checksum gives: True, or ChecksumError with its message;
\* a mismatch message spells the expected and the calculated tag.
ChecksumResult(exc, msg, expected, got) ==
    [exc |-> exc, msg |-> msg, val |-> exc = "", expected |-> expected, got |-> got]

\* A verification that checks the syntax of the tag and compares nothing.
validate_checksum_SyntaxOnly(data, tag) ==
    IF ~CHECKSUM_PATTERN(tag)
    THEN ChecksumResult("ChecksumError", "Invalid checksum format", JNull, JNull)
    ELSE ChecksumResult("", "", JNull, JNull)

\* A verification that compares before it looks at the syntax of the tag.
validate_checksum_ComparesFirst(data, tag) ==
    IF tag.jt # "hexstr" \/ calculate_checksum(data).v.digest # tag.v.digest
    THEN ChecksumResult("ChecksumError", "Checksum mismatch", tag, calculate_checksum(data))
    ELSE IF ~CHECKSUM_PATTERN(tag)
    THEN ChecksumResult("ChecksumError", "Invalid checksum format", JNull, JNull)
    ELSE ChecksumResult("", "", JNull, JNull)

\* A verification that compares the tag as it is spelled.
validate_checksum_CaseSensitive(data, tag) ==
    IF ~CHECKSUM_PATTERN(tag)
    THEN ChecksumResult("ChecksumError", "Invalid checksum format", JNull, JNull)
    ELSE IF calculate_checksum(data) # tag
    THEN ChecksumResult("ChecksumError", "Checksum mismatch", Lower(tag), calculate_checksum(data))
    ELSE ChecksumResult("", "", JNull, JNull)

validate_checksum(data, tag) ==
    IF ~CHECKSUM_PATTERN(tag)
    THEN ChecksumResult("ChecksumError", "Invalid checksum format", JNull, JNull)
    ELSE IF calculate_checksum(data) # Lower(tag)
    THEN ChecksumResult("ChecksumError", "Checksum mismatch", Lower(tag), calculate_checksum(data))
    ELSE ChecksumResult("", "", JNull, JNull)

\* -------------------------------------------------------------- schema
MAX_PAGE_SIZE == 104857600
MAX_CONTENT_BLOCKS == 1000

KnownTypes ==
    {"text", "heading", "link", "image", "list", "code", "table", "quote",
     "video", "audio", "structured"}

\* Absolute URIs among the strings of the model.
URIs == {"https://example.com/a", "https://example.com/b"}

HasStr(d, key) == key \in DOMAIN d.v /\ IsStr(d.v[key])
OptStr(d, key) == key \in DOMAIN d.v => IsStr(d.v[key])

\* The shape of a known variant: its required sub-fields, and the level
\* range 1..6 of a heading.
VariantFields(type) ==
    CASE type = "text" -> {"text"}
      [] type = "heading" -> {"level", "text"}
      [] type = "link" -> {"url", "text"}
      [] type = "image" -> {"url"}
      [] type = "list" -> {"items"}
      [] type = "code" -> {"language", "code"}
      [] type = "table" -> {"rows"}
      [] type = "quote" -> {"text"}
      [] type = "video" -> {"sources"}
      [] type = "audio" -> {"sources"}
      [] type = "structured" -> {"format", "data"}
      [] OTHER -> {}

VariantShapeOK(block) ==
    /\ VariantFields(block.v["type"].v) \subseteq DOMAIN block.v
    /\ block.v["type"].v = "heading" =>
         /\ block.v["level"].jt = "number"
         /\ block.v["level"].v \in 1..6

\* PAGE_SCHEMA["definitions"]["contentBlock"]: an object with a string
\* type; a known type is held to its variant's shape, any other type is
\* accepted as it is.
ContentBlockSchema(block) ==
    /\ IsObj(block)
    /\ HasStr(block, "type")
    /\ block.v["type"].jt = "string"
    /\ block.v["type"].v \in KnownTypes => VariantShapeOK(block)

\* COLLECTION_SCHEMA (schemas/collection.json).
COLLECTION_SCHEMA(data) ==
    /\ IsObj(data)
    /\ "collection" \in DOMAIN data.v
    /\ LET coll == data.v["collection"]
       IN  /\ IsObj(coll)
           /\ \A k \in {"id", "section", "type", "generated", "version"} : HasStr(coll, k)
           /\ coll.v["type"] \in {JStr("snapshot"), JStr("delta")}
           /\ coll.v["type"] = JStr("delta") => "since" \in DOMAIN coll.v
           /\ OptStr(coll, "since")
           /\ "checksum" \in DOMAIN coll.v =>
                /\ CHECKSUM_PATTERN(coll.v["checksum"])
                /\ ~coll.v["checksum"].v.upper

\* PAGE_SCHEMA (schemas/page.json).
PAGE_SCHEMA(data) ==
    /\ IsObj(data)
    /\ \A k \in {"url", "title", "description", "modified", "language"} : HasStr(data, k)
    /\ data.v["url"].jt = "string" /\ data.v["url"].v \in URIs
    /\ "content" \in DOMAIN data.v
    /\ IsArr(data.v["content"])
    /\ \A i \in DOMAIN data.v["content"].v : ContentBlockSchema(data.v["content"].v[i])
    /\ OptStr(data, "author")
    /\ OptStr(data, "published")
    /\ "canonical" \in DOMAIN data.v =>
         data.v["canonical"].jt = "string" /\ data.v["canonical"].v \in URIs
    /\ "robots" \in DOMAIN data.v =>
         /\ IsArr(data.v["robots"])
         /\ \A i \in DOMAIN data.v["robots"].v : IsStr(data.v["robots"].v[i])
    /\ "schema" \in DOMAIN data.v => IsObj(data.v["schema"])

validate_collection_metadata(data) ==
    IF COLLECTION_SCHEMA(data)
    THEN [exc |-> "", msg |-> ""]
    ELSE [exc |-> "ValidationError", msg |-> "Collection metadata validation failed"]

\* data["content"]: a dict gives the member; a list or a str indexed by a
\* str raises TypeError.
validate_page(data) ==
    LET has == PyIn("content", data)
    IN  IF has.exc # "" THEN [exc |-> has.exc, msg |-> ""]
        ELSE IF has.val /\ ~IsObj(data) THEN [exc |-> "TypeError", msg |-> ""]
        ELSE IF has.val /\ PyLen(data.v["content"]).exc # ""
        THEN [exc |-> PyLen(data.v["content"]).exc, msg |-> ""]
        ELSE IF has.val /\ PyLen(data.v["content"]).val > MAX_CONTENT_BLOCKS
        THEN [exc |-> "ValidationError", msg |-> "Content array has too many blocks"]
        ELSE IF ~PAGE_SCHEMA(data)
        THEN [exc |-> "ValidationError", msg |-> "Page validation failed"]
        ELSE [exc |-> "", msg |-> ""]

\* A classifier that treats an unknown type as a validation failure.
validate_content_block_RejectsUnknown(block) ==
    IF ~IsObj(block)
    THEN [exc |-> "ValidationError", msg |-> "Content block must be a dictionary", val |-> FALSE]
    ELSE IF "type" \notin DOMAIN block.v
    THEN [exc |-> "ValidationError", msg |-> "Content block missing 'type' field", val |-> FALSE]
    ELSE IF block.v["type"].jt \in {"array", "object"}
    THEN [exc |-> "TypeError", msg |-> "unhashable type", val |-> FALSE]
    ELSE IF ~(block.v["type"].jt = "string" /\ block.v["type"].v \in KnownTypes)
    THEN [exc |-> "ValidationError", msg |-> "Content block validation failed", val |-> FALSE]
    ELSE IF ~ContentBlockSchema(block)
    THEN [exc |-> "ValidationError", msg |-> "Content block validation failed", val |-> FALSE]
    ELSE [exc |-> "", msg |-> "", val |-> TRUE]

\* True for a known type that conforms, False for an unknown type.  The
\* test `block["type"] not in known_types` hashes the type: a list or a
\* dict there raises TypeError.
validate_content_block(block) ==
    IF ~IsObj(block)
    THEN [exc |-> "ValidationError", msg |-> "Content block must be a dictionary", val |-> FALSE]
    ELSE IF "type" \notin DOMAIN block.v
    THEN [exc |-> "ValidationError", msg |-> "Content block missing 'type' field", val |-> FALSE]
    ELSE IF block.v["type"].jt \in {"array", "object"}
    THEN [exc |-> "TypeError", msg |-> "unhashable type", val |-> FALSE]
    ELSE IF ~(block.v["type"].jt = "string" /\ block.v["type"].v \in KnownTypes)
    THEN [exc |-> "", msg |-> "", val |-> FALSE]
    ELSE IF ~ContentBlockSchema(block)
    THEN [exc |-> "ValidationError", msg |-> "Content block validation failed", val |-> FALSE]
    ELSE [exc |-> "", msg |-> "", val |-> TRUE]

\* --------------------------------------------------------- compression
\* Limits, in KiB.
MAX_COMPRESSED_SIZE == 52428800
MAX_DECOMPRESSED_SIZE == 524288000
MAX_COMPRESSION_RATIO == 100
MIN_SIZE_FOR_RATIO_CHECK == 1024
chunk_size == 8

\* The zstandard package is a declared dependency and the import succeeds.
ZSTD_AVAILABLE == TRUE

GzipMagic == <<31, 139>>
ZstdMagic == <<40, 181, 47, 253>>

Min(a, b) == IF a < b THEN a ELSE b

RECURSIVE TextBytes(_)
TextBytes(text) ==
    IF text = <<>> THEN 0
    ELSE Head(text).size + (IF Len(text) > 1 THEN 1 ELSE 0) + TextBytes(Tail(text))

\* Length of a text in KiB, rounded up.
TextKiB(text) == (TextBytes(text) + 1023) \div 1024

\* The first bytes (at most four) of an uncompressed text.
HeadOf(text) ==
    IF text = <<>> THEN <<>>
    ELSE IF Head(text).kind = "blank" THEN <<10>>
    ELSE IF Head(text).kind = "garbage" THEN <<110, 111, 116, 32>>
    ELSE IF Head(text).kind = "run" THEN <<65, 65, 65, 65>>
    ELSE IF Head(text).kind = "badutf8" THEN <<255, 254, 123, 34>>
    ELSE IF IsObj(Head(text).val) THEN <<123, 34, 99, 111>>
    ELSE IF Len(text) = 1 THEN <<53>>
    ELSE <<53, 10, 123, 34>>

\* A byte string: head, its first bytes (at most four); len, its length;
\* text, the text it encodes; dsize, the length of that text; failat, the
\* number of KiB a codec yields before it fails on a corrupt or truncated
\* stream (-1: the stream is sound).  For an uncompressed byte string the
\* text is the bytes themselves.
PlainBytes(text) ==
    [head |-> HeadOf(text), len |-> TextKiB(text), text |-> text,
     dsize |-> TextKiB(text), failat |-> -1]

CodecBytes(magic, len, text, dsize, failat) ==
    [head |-> magic, len |-> len, text |-> text, dsize |-> dsize, failat |-> failat]

\* The compressed length the codecs give a text of this model: the short
\* texts do not shrink below 1 KiB, a run of one repeated byte shrinks
\* about a thousandfold.
CompressedKiB(text) ==
    IF text = <<>> THEN 1
    ELSE IF Len(text) = 1 /\ Head(text).kind = "run" THEN (TextKiB(text) + 999) \div 1000
    ELSE TextKiB(text)

\* A detection that compares the magic bytes whatever the length.
detect_compression_AnyLength(data) ==
    IF Len(data.head) >= 2 /\ SubSeq(data.head, 1, 2) = GzipMagic THEN "gzip"
    ELSE IF Len(data.head) >= 4 /\ SubSeq(data.head, 1, 4) = ZstdMagic THEN "zstd"
    ELSE "none"

detect_compression(data) ==
    IF Len(data.head) < 4 THEN "none"
    ELSE IF SubSeq(data.head, 1, 2) = GzipMagic THEN "gzip"
    ELSE IF SubSeq(data.head, 1, 4) = ZstdMagic THEN "zstd"
    ELSE "none"

\* total / compressed_size > MAX_COMPRESSION_RATIO, without overflow.
RatioExceeded(total, compressed_size) ==
    \/ total \div compressed_size > MAX_COMPRESSION_RATIO
    \/ /\ total \div compressed_size = MAX_COMPRESSION_RATIO
       /\ total % compressed_size > 0

\* Checks whose ratio test is not gated by the threshold.
ChunkCheck_NoThreshold(total_decompressed, compressed_size, max_size) ==
    IF compressed_size > 0 /\ RatioExceeded(total_decompressed, compressed_size)
    THEN "CompressionBombError"
    ELSE IF total_decompressed > max_size THEN "CompressionBombError"
    ELSE ""

\* The two checks of the read loop after a chunk, on the running total.
ChunkCheck(total_decompressed, compressed_size, max_size) ==
    IF /\ total_decompressed >= MIN_SIZE_FOR_RATIO_CHECK
       /\ compressed_size > 0
       /\ RatioExceeded(total_decompressed, compressed_size)
    THEN "CompressionBombError"
    ELSE IF total_decompressed > max_size THEN "CompressionBombError"
    ELSE ""

\* The read loop of decompress_gzip and decompress_zstd.  The codec yields
\* `avail` KiB in chunks of chunk_size (the last one shorter) and then ends
\* the stream, or fails; the loop stops at the first chunk a check rejects.
ReadLoop(compressed_size, dsize, failat, max_size) ==
    LET avail == IF failat >= 0 THEN Min(dsize, failat) ELSE dsize
        nchunks == (avail + chunk_size - 1) \div chunk_size
        TotalAfter(k) == Min(k * chunk_size, avail)
        rejected == {k \in 1..nchunks :
                       ChunkCheck(TotalAfter(k), compressed_size, max_size) # ""}
    IN  IF rejected # {} THEN "CompressionBombError"
        ELSE IF failat >= 0 THEN "DecompressionError"
        ELSE "ok"

Decompress(data, max_size) ==
    IF data.len > MAX_COMPRESSED_SIZE
    THEN [exc |-> "DecompressionError", data |-> PlainBytes(<<>>)]
    ELSE LET r == ReadLoop(data.len, data.dsize, data.failat, max_size)
         IN  IF r = "ok" THEN [exc |-> "", data |-> PlainBytes(data.text)]
             ELSE [exc |-> r, data |-> PlainBytes(<<>>)]

decompress_gzip(data) == Decompress(data, MAX_DECOMPRESSED_SIZE)

decompress_zstd(data) ==
    IF ~ZSTD_AVAILABLE THEN [exc |-> "DecompressionError", data |-> PlainBytes(<<>>)]
    ELSE Decompress(data, MAX_DECOMPRESSED_SIZE)

compress_gzip(data, level) ==
    IF data.len > MAX_DECOMPRESSED_SIZE \/ level \notin -1..9
    THEN [exc |-> "CompressionError", msg |-> "", data |-> PlainBytes(<<>>)]
    ELSE [exc |-> "", msg |-> "",
          data |-> CodecBytes(<<31, 139, 8, 0>>, CompressedKiB(data.text), data.text, data.len, -1)]

compress_zstd(data, level) ==
    IF ~ZSTD_AVAILABLE \/ data.len > MAX_DECOMPRESSED_SIZE \/ level > 22
    THEN [exc |-> "CompressionError", msg |-> "", data |-> PlainBytes(<<>>)]
    ELSE [exc |-> "", msg |-> "",
          data |-> CodecBytes(ZstdMagic, CompressedKiB(data.text), data.text, data.len, -1)]

\* The frame of a direct call of the compression module: pc is idle,
\* compressed (compress_* has returned), loop (in the read loop), returned
\* or raised; fn names the function; input is the argument of compress_*;
\* data the argument of detect_compression or decompress_*; format the
\* value detect_compression returned; output the length of the output
\* buffer; result the bytes returned; compressed_by the function whose
\* result is being decompressed ("": the stream came from outside).
IdleCodec ==
    [pc |-> "idle", fn |-> "", input |-> PlainBytes(<<>>), data |-> PlainBytes(<<>>),
     compressed_by |-> "", format |-> "", max_size |-> 0, compressed_size |-> 0, total_decompressed |-> 0,
     output |-> 0, exc |-> "", result |-> PlainBytes(<<>>)]

\* decompressor.read(chunk_size) with `done` KiB already read: the length
\* of the chunk (0 at the end of the stream), or the failure of the codec.
Read(data, done) ==
    LET avail == IF data.failat >= 0 THEN Min(data.dsize, data.failat) ELSE data.dsize
        chunk == Min(chunk_size, avail - done)
    IN  IF chunk = 0 /\ data.failat >= 0
        THEN [exc |-> "Exception", chunk |-> 0]
        ELSE [exc |-> "", chunk |-> chunk]

\* decompress_gzip / decompress_zstd up to the read loop.
DecompressEnter(c, fn, data, max_size) ==
    LET frame == [c EXCEPT !.fn = fn, !.data = data, !.max_size = max_size,
                           !.compressed_size = data.len, !.total_decompressed = 0,
                           !.output = 0]
    IN  IF fn = "decompress_zstd" /\ ~ZSTD_AVAILABLE
        THEN [frame EXCEPT !.pc = "raised", !.exc = "DecompressionError"]
        ELSE IF data.len > MAX_COMPRESSED_SIZE
        THEN [frame EXCEPT !.pc = "raised", !.exc = "DecompressionError"]
        ELSE [frame EXCEPT !.pc = "loop"]

\* A read loop that takes a short chunk for the end of the stream.
LoopStep_DropsShortChunk(c) ==
    LET r == Read(c.data, c.total_decompressed)
        total == c.total_decompressed + r.chunk
        check == ChunkCheck(total, c.compressed_size, c.max_size)
    IN  IF r.exc # "" THEN [c EXCEPT !.pc = "raised", !.exc = "DecompressionError"]
        ELSE IF r.chunk < chunk_size
        THEN [c EXCEPT !.pc = "returned",
                       !.result = IF r.chunk = 0 THEN PlainBytes(c.data.text)
                                  ELSE PlainBytes(<<>>)]
        ELSE IF check # ""
        THEN [c EXCEPT !.pc = "raised", !.exc = check, !.total_decompressed = total]
        ELSE [c EXCEPT !.total_decompressed = total, !.output = @ + r.chunk]

\* A read loop that writes the chunk to the output before it checks.
LoopStep_WritesFirst(c) ==
    LET r == Read(c.data, c.total_decompressed)
        total == c.total_decompressed + r.chunk
        check == ChunkCheck(total, c.compressed_size, c.max_size)
    IN  IF r.exc # "" THEN [c EXCEPT !.pc = "raised", !.exc = "DecompressionError"]
        ELSE IF r.chunk = 0
        THEN [c EXCEPT !.pc = "returned", !.result = PlainBytes(c.data.text)]
        ELSE IF check # ""
        THEN [c EXCEPT !.pc = "raised", !.exc = check, !.total_decompressed = total,
                       !.output = @ + r.chunk]
        ELSE [c EXCEPT !.total_decompressed = total, !.output = @ + r.chunk]

\* A read loop whose except clause wraps every exception.
LoopStep_WrapsAll(c) ==
    LET r == Read(c.data, c.total_decompressed)
        total == c.total_decompressed + r.chunk
        check == ChunkCheck(total, c.compressed_size, c.max_size)
    IN  IF r.exc # "" THEN [c EXCEPT !.pc = "raised", !.exc = "DecompressionError"]
        ELSE IF r.chunk = 0
        THEN [c EXCEPT !.pc = "returned", !.result = PlainBytes(c.data.text)]
        ELSE IF check # ""
        THEN [c EXCEPT !.pc = "raised", !.exc = "DecompressionError",
                       !.total_decompressed = total]
        ELSE [c EXCEPT !.total_decompressed = total, !.output = @ + r.chunk]

\* A read loop that goes on reading at the end of the stream.
LoopStep_NoBreak(c) ==
    LET r == Read(c.data, c.total_decompressed)
        total == c.total_decompressed + r.chunk
        check == ChunkCheck(total, c.compressed_size, c.max_size)
    IN  IF r.exc # "" THEN [c EXCEPT !.pc = "raised", !.exc = "DecompressionError"]
        ELSE IF r.chunk = 0 THEN c
        ELSE IF check # ""
        THEN [c EXCEPT !.pc = "raised", !.exc = check, !.total_decompressed = total]
        ELSE [c EXCEPT !.total_decompressed = total, !.output = @ + r.chunk]

\* One turn of `while True:` in decompress_gzip / decompress_zstd, with the
\* except clauses around it.
LoopStep(c) ==
    LET r == Read(c.data, c.total_decompressed)
        total == c.total_decompressed + r.chunk
        check == ChunkCheck(total, c.compressed_size, c.max_size)
    IN  IF r.exc # "" THEN [c EXCEPT !.pc = "raised", !.exc = "DecompressionError"]
        ELSE IF r.chunk = 0
        THEN [c EXCEPT !.pc = "returned", !.result = PlainBytes(c.data.text)]
        ELSE IF check # ""
        THEN [c EXCEPT !.pc = "raised", !.exc = check, !.total_decompressed = total]
        ELSE [c EXCEPT !.total_decompressed = total, !.output = @ + r.chunk]

\* ----------------------------------------------------------- generator
NoGenerator ==
    [state |-> "none", collection_id |-> "", section |-> "", collection_type |-> "",
     since |-> JNull, version |-> "", pages |-> <<>>]

\* A constructor that does not ask a delta for its since.
SCPGenerator_DeltaUnchecked(collection_id, section, collection_type, since, version) ==
    IF collection_type \notin {"snapshot", "delta"}
    THEN [exc |-> "ValidationError", msg |-> "Invalid collection type", val |-> NoGenerator]
    ELSE [exc |-> "", msg |-> "",
          val |-> [state |-> "ready", collection_id |-> collection_id, section |-> section,
                   collection_type |-> collection_type, since |-> since,
                   version |-> version, pages |-> <<>>]]

\* SCPGenerator.__init__: the generator, or ValidationError.
SCPGenerator(collection_id, section, collection_type, since, version) ==
    IF collection_type \notin {"snapshot", "delta"}
    THEN [exc |-> "ValidationError", msg |-> "Invalid collection type", val |-> NoGenerator]
    ELSE IF collection_type = "delta" /\ ~Truthy(since)
    THEN [exc |-> "ValidationError", msg |-> "Delta collections require 'since' parameter",
          val |-> NoGenerator]
    ELSE [exc |-> "", msg |-> "",
          val |-> [state |-> "ready", collection_id |-> collection_id, section |-> section,
                   collection_type |-> collection_type, since |-> since,
                   version |-> version, pages |-> <<>>]]

\* `if x: page[key] = x`
SetIfTruthy(d, key, x) == IF Truthy(x) THEN SetKey(d, key, x) ELSE d

\* The page record add_page builds from its arguments.
add_page(url, title, description, modified, language, content, author, published, canonical, robots, schema_data) ==
    LET page == JObj([url |-> url, title |-> title, description |-> description,
                      modified |-> modified, language |-> language, content |-> content])
    IN  SetIfTruthy(SetIfTruthy(SetIfTruthy(SetIfTruthy(SetIfTruthy(page,
            "author", author), "published", published), "canonical", canonical),
            "robots", robots), "schema", schema_data)

\* The metadata record of generate(), before the checksum is stamped.
GenMetadata(g, now) ==
    LET coll == JObj([id |-> JStr(g.collection_id), section |-> JStr(g.section),
                      type |-> JStr(g.collection_type), generated |-> JStr(now),
                      version |-> JStr(g.version)])
    IN  JObj([collection |-> IF Truthy(g.since) THEN SetKey(coll, "since", g.since) ELSE coll])

\* metadata["collection"]["checksum"] = file_checksum
StampChecksum(metadata, file_checksum) ==
    JObj([collection |-> SetKey(metadata.v["collection"], "checksum", file_checksum)])

\* output_lines[0] = ...; content = "\n".join(output_lines); data = content.encode("utf-8")
Rebuild(output_lines, metadata) ==
    PlainBytes(Join(<<dumps(metadata)>> \o Tail(output_lines)))

\* Output lines that end the text with a newline.
OutputLines_NewlineTerminated(g, metadata) ==
    <<dumps(metadata)>> \o [i \in 1..Len(g.pages) |-> dumps(g.pages[i])] \o <<BlankLine>>

OutputLines(g, metadata) ==
    <<dumps(metadata)>> \o [i \in 1..Len(g.pages) |-> dumps(g.pages[i])]

\* A generator that hashes the metadata record alone.
GenData_HashesHeaderOnly(g, now, include_checksum) ==
    LET metadata == GenMetadata(g, now)
        output_lines == OutputLines(g, metadata)
        data == PlainBytes(Join(output_lines))
    IN  IF include_checksum
        THEN Rebuild(output_lines,
                     StampChecksum(metadata, calculate_checksum(PlainBytes(<<dumps(metadata)>>))))
        ELSE data

\* The bytes generate() hashes, and the bytes it hands to the compressor.
GenData(g, now, include_checksum) ==
    LET metadata == GenMetadata(g, now)
        output_lines == OutputLines(g, metadata)
        data == PlainBytes(Join(output_lines))
    IN  IF include_checksum
        THEN Rebuild(output_lines, StampChecksum(metadata, calculate_checksum(data)))
        ELSE data

\* A generate() without the check for an empty collection.
generate_AllowsEmpty(g, now, include_checksum, compress, compress_level) ==
    LET data == GenData(g, now, include_checksum)
    IN  IF compress = "gzip"
        THEN compress_gzip(data, compress_level)
        ELSE IF compress = "zstd"
        THEN compress_zstd(data, compress_level)
        ELSE IF compress = "None"
        THEN [exc |-> "", msg |-> "", data |-> data]
        ELSE [exc |-> "ValidationError", msg |-> "Unknown compression type",
              data |-> PlainBytes(<<>>)]

generate(g, now, include_checksum, compress, compress_level) ==
    IF g.pages = <<>>
    THEN [exc |-> "ValidationError", msg |-> "No pages added to collection",
          data |-> PlainBytes(<<>>)]
    ELSE LET data == GenData(g, now, include_checksum)
         IN  IF compress = "gzip"
             THEN compress_gzip(data, compress_level)
             ELSE IF compress = "zstd"
             THEN compress_zstd(data, compress_level)
             ELSE IF compress = "None"
             THEN [exc |-> "", msg |-> "", data |-> data]
             ELSE [exc |-> "ValidationError", msg |-> "Unknown compression type",
                   data |-> PlainBytes(<<>>)]

\* -------------------------------------------------------------- parser
\* CollectionMetadata(data); None is the record of None attributes.
NoMetadata ==
    [raw |-> JNull, id |-> JNull, section |-> JNull, type |-> JNull, generated |-> JNull,
     since |-> JNull, checksum |-> JNull, version |-> JNull]

CollectionMetadata(data) ==
    LET coll == data.v["collection"]
    IN  [raw |-> data, id |-> coll.v["id"], section |-> coll.v["section"],
         type |-> coll.v["type"], generated |-> coll.v["generated"],
         since |-> PyGet(coll, "since"), checksum |-> PyGet(coll, "checksum"),
         version |-> coll.v["version"]]

PageRequired == {"url", "title", "description", "modified", "language", "content"}

\* Page(data): the page object, or the exception of a failed subscript.
Page(data) ==
    IF ~IsObj(data) THEN [exc |-> "TypeError", val |-> JNull]
    ELSE IF ~(PageRequired \subseteq DOMAIN data.v) THEN [exc |-> "KeyError", val |-> JNull]
    ELSE [exc |-> "",
          val |-> [raw |-> data, url |-> data.v["url"], title |-> data.v["title"],
                   description |-> data.v["description"], author |-> PyGet(data, "author"),
                   published |-> PyGet(data, "published"), modified |-> data.v["modified"],
                   language |-> data.v["language"], canonical |-> PyGet(data, "canonical"),
                   robots |-> IF "robots" \in DOMAIN data.v THEN data.v["robots"] ELSE JArr(<<>>),
                   schema_data |-> PyGet(data, "schema"), content |-> data.v["content"]]]

\* An entry of SCPParser._errors: the kind of message, the line number it
\* names (0: none) and the block index it names (-1: none).
Diag(kind, line_num, block_idx) == [kind |-> kind, line |-> line_num, block |-> block_idx]

\* The warnings of the content-block loop, for the blocks from block_idx on
\* (block_idx counts from 0).
RECURSIVE BlockWarnings(_, _, _)
BlockWarnings(content, block_idx, line_num) ==
    IF block_idx >= Len(content) THEN <<>>
    ELSE LET block == content[block_idx + 1]
             classified == IsObj(block) /\ "type" \in DOMAIN block.v
             r == validate_content_block(block)
         IN  (IF classified /\ r.exc = "" /\ ~r.val
              THEN <<Diag("Unknown content block type", line_num, block_idx)>>
              ELSE <<>>)
             \o BlockWarnings(content, block_idx + 1, line_num)

\* The warnings the loop appends for a page: `if "content" in page_dict`.
PageWarnings(page_dict, line_num) ==
    IF IsObj(page_dict) /\ "content" \in DOMAIN page_dict.v /\ IsArr(page_dict.v["content"])
    THEN BlockWarnings(page_dict.v["content"].v, 0, line_num)
    ELSE <<>>

\* The bytes of a file and their text after decompression by the format
\* the magic bytes name.
DecompressDetected(data) ==
    LET compression_type == detect_compression(data)
    IN  IF compression_type = "gzip" THEN decompress_gzip(data)
        ELSE IF compression_type = "zstd" THEN decompress_zstd(data)
        ELSE [exc |-> "", data |-> data]

\* The frame of a parse call: pc is idle (no call yet), pages (in the page
\* loop), returned or raised; entry names the entry point; lines are the
\* records; line_num is the number of the next record; exc, msg and line
\* describe the exception raised.
IdleCall ==
    [pc |-> "idle", entry |-> "", lines |-> <<>>, line_num |-> 0,
     exc |-> "", msg |-> "", line |-> 0]

Raised(entry, exc, msg, line_num) ==
    [pc |-> "raised", entry |-> entry, lines |-> <<>>, line_num |-> 0,
     exc |-> exc, msg |-> msg, line |-> line_num]

InLoop(entry, lines, line_num) ==
    [pc |-> "pages", entry |-> entry, lines |-> lines, line_num |-> line_num,
     exc |-> "", msg |-> "", line |-> 0]

\* A parse_file that, in lenient mode, records an unparseable record 0 as
\* a diagnostic and goes on to the page loop.
ParseFileHeader_RecoversHeader(p, data0) ==
    LET d == DecompressDetected(data0)
        data == d.data
        lines == StripSplit(decode(data).text)
        first == loads(lines[1])
        metadata_dict == first.val
        has == PyIn("collection", metadata_dict)
        metadata == CollectionMetadata(metadata_dict)
        ck == validate_checksum(data, metadata.checksum)
    IN  IF d.exc # "" THEN [p |-> p, call |-> Raised("file", d.exc, "", 0)]
        ELSE IF decode(data).exc # ""
        THEN [p |-> p, call |-> Raised("file", decode(data).exc, "", 0)]
        ELSE IF lines[1].kind = "blank"
        THEN [p |-> p, call |-> Raised("file", "ValidationError", "Empty file", 0)]
        ELSE IF first.exc # "" /\ p.strict
        THEN [p |-> p, call |-> Raised("file", "ValidationError", "Invalid JSON", 1)]
        ELSE IF first.exc # ""
        THEN [p |-> [p EXCEPT !.errors = Append(@, Diag("Invalid JSON", 1, -1))],
              call |-> InLoop("file", lines, 2)]
        ELSE IF has.exc # "" THEN [p |-> p, call |-> Raised("file", has.exc, "", 0)]
        ELSE IF ~has.val
        THEN [p |-> p, call |-> Raised("file", "ValidationError",
                                       "First line must contain collection metadata", 0)]
        ELSE IF validate_collection_metadata(metadata_dict).exc # ""
        THEN [p |-> p, call |-> Raised("file", "ValidationError",
                                       "Collection metadata validation failed", 0)]
        ELSE IF Truthy(metadata.checksum) /\ ck.exc # "" /\ p.strict
        THEN [p |-> [p EXCEPT !.metadata = metadata],
              call |-> Raised("file", ck.exc, ck.msg, 0)]
        ELSE [p |-> [p EXCEPT !.metadata = metadata, !.pages = <<>>,
                       !.errors = IF Truthy(metadata.checksum) /\ ck.exc # ""
                                  THEN Append(@, Diag("Checksum validation failed", 0, -1))
                                  ELSE @],
              call |-> InLoop("file", lines, 2)]

\* A parse_file that goes on to the pages without validating the header.
ParseFileHeader_UncheckedHeader(p, data0) ==
    LET d == DecompressDetected(data0)
        data == d.data
        lines == StripSplit(decode(data).text)
        first == loads(lines[1])
        metadata_dict == first.val
        has == PyIn("collection", metadata_dict)
        metadata == CollectionMetadata(metadata_dict)
        ck == validate_checksum(data, metadata.checksum)
    IN  IF d.exc # "" THEN [p |-> p, call |-> Raised("file", d.exc, "", 0)]
        ELSE IF decode(data).exc # ""
        THEN [p |-> p, call |-> Raised("file", decode(data).exc, "", 0)]
        ELSE IF lines[1].kind = "blank"
        THEN [p |-> p, call |-> Raised("file", "ValidationError", "Empty file", 0)]
        ELSE IF first.exc # ""
        THEN [p |-> p, call |-> Raised("file", "ValidationError", "Invalid JSON", 1)]
        ELSE IF has.exc # "" THEN [p |-> p, call |-> Raised("file", has.exc, "", 0)]
        ELSE IF ~has.val
        THEN [p |-> p, call |-> Raised("file", "ValidationError",
                                       "First line must contain collection metadata", 0)]
        ELSE IF ~IsObj(metadata_dict.v["collection"])
        THEN [p |-> p, call |-> Raised("file", "TypeError", "", 0)]
        ELSE IF Truthy(metadata.checksum) /\ ck.exc # "" /\ p.strict
        THEN [p |-> [p EXCEPT !.metadata = metadata],
              call |-> Raised("file", ck.exc, ck.msg, 0)]
        ELSE [p |-> [p EXCEPT !.metadata = metadata, !.pages = <<>>,
                       !.errors = IF Truthy(metadata.checksum) /\ ck.exc # ""
                                  THEN Append(@, Diag("Checksum validation failed", 0, -1))
                                  ELSE @],
              call |-> InLoop("file", lines, 2)]

\* parse_file up to the page loop: the new parser fields and call frame.
ParseFileHeader(p, data0) ==
    LET d == DecompressDetected(data0)
        data == d.data
        lines == StripSplit(decode(data).text)
        first == loads(lines[1])
        metadata_dict == first.val
        has == PyIn("collection", metadata_dict)
        metadata == CollectionMetadata(metadata_dict)
        ck == validate_checksum(data, metadata.checksum)
    IN  IF d.exc # "" THEN [p |-> p, call |-> Raised("file", d.exc, "", 0)]
        ELSE IF decode(data).exc # ""
        THEN [p |-> p, call |-> Raised("file", decode(data).exc, "", 0)]
        ELSE IF lines[1].kind = "blank"
        THEN [p |-> p, call |-> Raised("file", "ValidationError", "Empty file", 0)]
        ELSE IF first.exc # ""
        THEN [p |-> p, call |-> Raised("file", "ValidationError", "Invalid JSON", 1)]
        ELSE IF has.exc # "" THEN [p |-> p, call |-> Raised("file", has.exc, "", 0)]
        ELSE IF ~has.val
        THEN [p |-> p, call |-> Raised("file", "ValidationError",
                                       "First line must contain collection metadata", 0)]
        ELSE IF validate_collection_metadata(metadata_dict).exc # ""
        THEN [p |-> p, call |-> Raised("file", "ValidationError",
                                       "Collection metadata validation failed", 0)]
        ELSE IF Truthy(metadata.checksum) /\ ck.exc # "" /\ p.strict
        THEN [p |-> [p EXCEPT !.metadata = metadata],
              call |-> Raised("file", ck.exc, ck.msg, 0)]
        ELSE [p |-> [p EXCEPT !.metadata = metadata, !.pages = <<>>,
                       !.errors = IF Truthy(metadata.checksum) /\ ck.exc # ""
                                  THEN Append(@, Diag("Checksum validation failed", 0, -1))
                                  ELSE @],
              call |-> InLoop("file", lines, 2)]

\* A page loop that does not validate the record.
ParseFileRecord_SkipsValidation(p, c) ==
    LET line == c.lines[c.line_num]
        line_num == c.line_num
        next == [c EXCEPT !.line_num = line_num + 1]
        parsed == loads(line)
        page_dict == parsed.val
        v == [exc |-> "", msg |-> ""]
        page == Page(page_dict)
        warned == [p EXCEPT !.errors = @ \o PageWarnings(page_dict, line_num)]
    IN  IF line.kind = "blank" THEN [p |-> p, call |-> next]
        ELSE IF parsed.exc # ""
        THEN IF p.strict
             THEN [p |-> p, call |-> Raised("file", "ValidationError", "Invalid JSON", line_num)]
             ELSE [p |-> [p EXCEPT !.errors = Append(@, Diag("Invalid JSON", line_num, -1))],
                   call |-> next]
        ELSE IF line.size > MAX_PAGE_SIZE
        THEN [p |-> p, call |-> Raised("file", "SizeLimitError", "exceeds maximum size", line_num)]
        ELSE IF v.exc = "ValidationError"
        THEN IF p.strict
             THEN [p |-> p, call |-> Raised("file", "ValidationError",
                                            "Page validation failed", line_num)]
             ELSE [p |-> [p EXCEPT !.errors =
                                     Append(@, Diag("Page validation failed", line_num, -1))],
                   call |-> next]
        ELSE IF v.exc # "" THEN [p |-> p, call |-> Raised("file", v.exc, "", line_num)]
        ELSE IF page.exc # ""
        THEN IF p.strict
             THEN [p |-> warned, call |-> Raised("file", "ValidationError",
                                                 "Failed to parse page", line_num)]
             ELSE [p |-> [warned EXCEPT !.errors =
                                          Append(@, Diag("Failed to parse page", line_num, -1))],
                   call |-> next]
        ELSE [p |-> [warned EXCEPT !.pages = Append(@, page.val)], call |-> next]

\* A page loop that puts each page at the front of the list.
ParseFileRecord_Prepends(p, c) ==
    LET line == c.lines[c.line_num]
        line_num == c.line_num
        next == [c EXCEPT !.line_num = line_num + 1]
        parsed == loads(line)
        page_dict == parsed.val
        v == validate_page(page_dict)
        page == Page(page_dict)
        warned == [p EXCEPT !.errors = @ \o PageWarnings(page_dict, line_num)]
    IN  IF line.kind = "blank" THEN [p |-> p, call |-> next]
        ELSE IF parsed.exc # ""
        THEN IF p.strict
             THEN [p |-> p, call |-> Raised("file", "ValidationError", "Invalid JSON", line_num)]
             ELSE [p |-> [p EXCEPT !.errors = Append(@, Diag("Invalid JSON", line_num, -1))],
                   call |-> next]
        ELSE IF line.size > MAX_PAGE_SIZE
        THEN [p |-> p, call |-> Raised("file", "SizeLimitError", "exceeds maximum size", line_num)]
        ELSE IF v.exc = "ValidationError"
        THEN IF p.strict
             THEN [p |-> p, call |-> Raised("file", "ValidationError",
                                            "Page validation failed", line_num)]
             ELSE [p |-> [p EXCEPT !.errors =
                                     Append(@, Diag("Page validation failed", line_num, -1))],
                   call |-> next]
        ELSE IF v.exc # "" THEN [p |-> p, call |-> Raised("file", v.exc, "", line_num)]
        ELSE IF page.exc # ""
        THEN IF p.strict
             THEN [p |-> warned, call |-> Raised("file", "ValidationError",
                                                 "Failed to parse page", line_num)]
             ELSE [p |-> [warned EXCEPT !.errors =
                                          Append(@, Diag("Failed to parse page", line_num, -1))],
                   call |-> next]
        ELSE [p |-> [warned EXCEPT !.pages = <<page.val>> \o @], call |-> next]

\* A page loop that hands blank lines to the JSON parser.
ParseFileRecord_ParsesBlank(p, c) ==
    LET line == c.lines[c.line_num]
        line_num == c.line_num
        next == [c EXCEPT !.line_num = line_num + 1]
        parsed == loads(line)
        page_dict == parsed.val
        v == validate_page(page_dict)
        page == Page(page_dict)
        warned == [p EXCEPT !.errors = @ \o PageWarnings(page_dict, line_num)]
    IN  IF parsed.exc # ""
        THEN IF p.strict
             THEN [p |-> p, call |-> Raised("file", "ValidationError", "Invalid JSON", line_num)]
             ELSE [p |-> [p EXCEPT !.errors = Append(@, Diag("Invalid JSON", line_num, -1))],
                   call |-> next]
        ELSE IF line.size > MAX_PAGE_SIZE
        THEN [p |-> p, call |-> Raised("file", "SizeLimitError", "exceeds maximum size", line_num)]
        ELSE IF v.exc = "ValidationError"
        THEN IF p.strict
             THEN [p |-> p, call |-> Raised("file", "ValidationError",
                                            "Page validation failed", line_num)]
             ELSE [p |-> [p EXCEPT !.errors =
                                     Append(@, Diag("Page validation failed", line_num, -1))],
                   call |-> next]
        ELSE IF v.exc # "" THEN [p |-> p, call |-> Raised("file", v.exc, "", line_num)]
        ELSE IF page.exc # ""
        THEN IF p.strict
             THEN [p |-> warned, call |-> Raised("file", "ValidationError",
                                                 "Failed to parse page", line_num)]
             ELSE [p |-> [warned EXCEPT !.errors =
                                          Append(@, Diag("Failed to parse page", line_num, -1))],
                   call |-> next]
        ELSE [p |-> [warned EXCEPT !.pages = Append(@, page.val)], call |-> next]

\* A page loop that, in lenient mode, skips an unparseable record without
\* a diagnostic.
ParseFileRecord_SilentSkip(p, c) ==
    LET line == c.lines[c.line_num]
        line_num == c.line_num
        next == [c EXCEPT !.line_num = line_num + 1]
        parsed == loads(line)
        page_dict == parsed.val
        v == validate_page(page_dict)
        page == Page(page_dict)
        warned == [p EXCEPT !.errors = @ \o PageWarnings(page_dict, line_num)]
    IN  IF line.kind = "blank" THEN [p |-> p, call |-> next]
        ELSE IF parsed.exc # ""
        THEN IF p.strict
             THEN [p |-> p, call |-> Raised("file", "ValidationError", "Invalid JSON", line_num)]
             ELSE [p |-> p, call |-> next]
        ELSE IF line.size > MAX_PAGE_SIZE
        THEN [p |-> p, call |-> Raised("file", "SizeLimitError", "exceeds maximum size", line_num)]
        ELSE IF v.exc = "ValidationError"
        THEN IF p.strict
             THEN [p |-> p, call |-> Raised("file", "ValidationError",
                                            "Page validation failed", line_num)]
             ELSE [p |-> [p EXCEPT !.errors =
                                     Append(@, Diag("Page validation failed", line_num, -1))],
                   call |-> next]
        ELSE IF v.exc # "" THEN [p |-> p, call |-> Raised("file", v.exc, "", line_num)]
        ELSE IF page.exc # ""
        THEN IF p.strict
             THEN [p |-> warned, call |-> Raised("file", "ValidationError",
                                                 "Failed to parse page", line_num)]
             ELSE [p |-> [warned EXCEPT !.errors =
                                          Append(@, Diag("Failed to parse page", line_num, -1))],
                   call |-> next]
        ELSE [p |-> [warned EXCEPT !.pages = Append(@, page.val)], call |-> next]

\* One turn of the page loop of parse_file, on the record at line_num.
ParseFileRecord(p, c) ==
    LET line == c.lines[c.line_num]
        line_num == c.line_num
        next == [c EXCEPT !.line_num = line_num + 1]
        parsed == loads(line)
        page_dict == parsed.val
        v == validate_page(page_dict)
        page == Page(page_dict)
        warned == [p EXCEPT !.errors = @ \o PageWarnings(page_dict, line_num)]
    IN  IF line.kind = "blank" THEN [p |-> p, call |-> next]
        ELSE IF parsed.exc # ""
        THEN IF p.strict
             THEN [p |-> p, call |-> Raised("file", "ValidationError", "Invalid JSON", line_num)]
             ELSE [p |-> [p EXCEPT !.errors = Append(@, Diag("Invalid JSON", line_num, -1))],
                   call |-> next]
        ELSE IF line.size > MAX_PAGE_SIZE
        THEN [p |-> p, call |-> Raised("file", "SizeLimitError", "exceeds maximum size", line_num)]
        ELSE IF v.exc = "ValidationError"
        THEN IF p.strict
             THEN [p |-> p, call |-> Raised("file", "ValidationError",
                                            "Page validation failed", line_num)]
             ELSE [p |-> [p EXCEPT !.errors =
                                     Append(@, Diag("Page validation failed", line_num, -1))],
                   call |-> next]
        ELSE IF v.exc # "" THEN [p |-> p, call |-> Raised("file", v.exc, "", line_num)]
        ELSE IF page.exc # ""
        THEN IF p.strict
             THEN [p |-> warned, call |-> Raised("file", "ValidationError",
                                                 "Failed to parse page", line_num)]
             ELSE [p |-> [warned EXCEPT !.errors =
                                          Append(@, Diag("Failed to parse page", line_num, -1))],
                   call |-> next]
        ELSE [p |-> [warned EXCEPT !.pages = Append(@, page.val)], call |-> next]

\* parse_bytes up to the page loop.
ParseBytesHeader(p, data0) ==
    LET d == DecompressDetected(data0)
        decompressed == d.data
        lines == StripSplit(decode(decompressed).text)
        first == loads(lines[1])
        metadata_dict == first.val
        metadata == CollectionMetadata(metadata_dict)
        ck == validate_checksum(decompressed, metadata.checksum)
    IN  IF d.exc # "" THEN [p |-> p, call |-> Raised("bytes", d.exc, "", 0)]
        ELSE IF decode(decompressed).exc # ""
        THEN [p |-> p, call |-> Raised("bytes", decode(decompressed).exc, "", 0)]
        ELSE IF lines = <<>>
        THEN [p |-> p, call |-> Raised("bytes", "ValidationError", "Empty data", 0)]
        ELSE IF first.exc # "" THEN [p |-> p, call |-> Raised("bytes", first.exc, "", 1)]
        ELSE IF validate_collection_metadata(metadata_dict).exc # ""
        THEN [p |-> p, call |-> Raised("bytes", "ValidationError",
                                       "Collection metadata validation failed", 0)]
        ELSE IF Truthy(metadata.checksum) /\ ck.exc # ""
        THEN [p |-> [p EXCEPT !.metadata = metadata],
              call |-> Raised("bytes", ck.exc, ck.msg, 0)]
        ELSE [p |-> [p EXCEPT !.metadata = metadata, !.pages = <<>>],
              call |-> InLoop("bytes", lines, 2)]

\* One turn of the page loop of parse_bytes.
ParseBytesRecord(p, c) ==
    LET line == c.lines[c.line_num]
        line_num == c.line_num
        next == [c EXCEPT !.line_num = line_num + 1]
        parsed == loads(line)
        page_dict == parsed.val
        v == validate_page(page_dict)
        page == Page(page_dict)
    IN  IF line.kind = "blank" THEN [p |-> p, call |-> next]
        ELSE IF parsed.exc # "" THEN [p |-> p, call |-> Raised("bytes", parsed.exc, "", line_num)]
        ELSE IF v.exc # "" THEN [p |-> p, call |-> Raised("bytes", v.exc, v.msg, line_num)]
        ELSE IF page.exc # "" THEN [p |-> p, call |-> Raised("bytes", page.exc, "", line_num)]
        ELSE [p |-> [p EXCEPT !.pages = Append(@, page.val)], call |-> next]

\* SCPParser(strict): a parser that has parsed nothing.
SCPParser_init(strict) ==
    [strict |-> strict, metadata |-> NoMetadata, pages |-> <<>>, errors |-> <<>>]

\* ---------------------------------------------------------- the inputs
TextBlock == JObj([type |-> JStr("text"), text |-> JStr("Welcome")])
HeadingBlock(level) ==
    JObj([type |-> JStr("heading"), level |-> JNum(level), text |-> JStr("Title")])
WidgetBlock == JObj([type |-> JStr("widget-v2"), x |-> JNum(1)])

PageDict(url, content) ==
    JObj([url |-> JStr(url), title |-> JStr("Home"), description |-> JStr("Homepage"),
          modified |-> JStr("2025-01-15T10:00:00Z"), language |-> JStr("en"),
          content |-> content])

ValidPage == PageDict("https://example.com/a", JArr(<<TextBlock>>))
WidgetPage == PageDict("https://example.com/b", JArr(<<HeadingBlock(2), WidgetBlock, WidgetBlock>>))
BadUrlPage == PageDict("not-a-url", JArr(<<TextBlock>>))
NullContentPage == PageDict("https://example.com/a", JNull)

\* Argument lists of add_page: url, content, author, robots (the other
\* optional arguments are left at None).
AddPageArgs ==
    { <<"https://example.com/a", JArr(<<TextBlock>>), JNull, JNull>>,
      <<"https://example.com/b", JArr(<<HeadingBlock(1), WidgetBlock>>), JStr("Ann"),
        JArr(<<JStr("noindex")>>)>>,
      <<"https://example.com/a", JArr(<<TextBlock>>), JStr(""), JArr(<<>>)>> }

\* Arguments of add_page_dict.
AddPageDictArgs == {WidgetPage, BadUrlPage}

Now == "2025-01-15T10:00:00Z"
Since == "2025-01-14T00:00:00Z"

Meta(type, extra) ==
    LET coll == JObj([id |-> JStr("test"), section |-> JStr("blog"), type |-> JStr(type),
                      generated |-> JStr(Now), version |-> JStr("0.1")])
    IN  JObj([collection |-> JObj(extra @@ coll.v)])

\* Header records of hand-written documents: a snapshot header, and other
\* valid headers (a delta, and a well-formed checksum of other bytes).
SnapshotHeader == dumps(Meta("snapshot", <<>>))

OtherHeaders ==
    { dumps(Meta("delta", [since |-> JStr(Since)])),
      dumps(Meta("snapshot", [checksum |-> calculate_checksum(PlainBytes(<<>>))])) }

BadHeaders ==
    { dumps(Meta("delta", <<>>)), dumps(ValidPage), GarbageLine(8), dumps(JNum(5)) }

\* Page records of hand-written documents.
BodyLines ==
    { dumps(ValidPage), dumps(WidgetPage), dumps(BadUrlPage), dumps(NullContentPage),
      dumps(JNum(5)), dumps(JArr(<<>>)), GarbageLine(8), BlankLine,
      JsonLine(ValidPage, MAX_PAGE_SIZE + 1), GarbageLine(MAX_PAGE_SIZE + 1) }

RECURSIVE SeqsUpTo(_, _)
SeqsUpTo(S, n) ==
    IF n = 0 THEN {<<>>}
    ELSE LET shorter == SeqsUpTo(S, n - 1)
         IN  shorter \cup {Append(t, x) : t \in shorter, x \in S}

SmallText == <<SnapshotHeader, dumps(ValidPage)>>
WhitespaceLine == [kind |-> "blank", val |-> JNull, size |-> 2]

\* Hand-written byte strings: uncompressed documents, byte strings that
\* are not UTF-8, and codec streams (sound, corrupt, truncated, and
\* expanding past the ratio limit).
HandWritten ==
    {PlainBytes(<<SnapshotHeader>> \o body) : body \in SeqsUpTo(BodyLines, MaxLines)}
    \cup {PlainBytes(<<h>> \o body) :
            h \in OtherHeaders \cup BadHeaders,
            body \in {<<>>, <<dumps(ValidPage)>>, <<dumps(BadUrlPage), dumps(ValidPage)>>}}
    \cup {PlainBytes(<<>>), PlainBytes(<<WhitespaceLine>>), PlainBytes(<<BlankLine, BlankLine>>)}
    \cup {PlainBytes(<<BadUtf8Line(8)>>), PlainBytes(<<SnapshotHeader, BadUtf8Line(8)>>)}
    \cup {CodecBytes(magic, 1, SmallText, dsize, failat) :
            magic \in {<<31, 139, 8, 0>>, ZstdMagic},
            dsize \in {1, 2048}, failat \in {-1, 0}}
    \cup {CodecBytes(<<31, 139, 8, 0>>, 1, <<>>, 0, -1)}

\* Compression levels: one every codec takes, one neither does.
Levels == {6, 23}

\* The frame of a direct call of a checksum or schema function: pc is idle, returned or raised; fn names the
\* function; data and tag are the arguments of the checksum functions, arg
\* the page or block handed to a schema function; val is the value
\* returned, checksum the tag calculate_checksum returned.
IdleFn ==
    [pc |-> "idle", fn |-> "", data |-> PlainBytes(<<>>), tag |-> JNull, arg |-> JNull,
     exc |-> "", msg |-> "", val |-> FALSE, expected |-> JNull, got |-> JNull,
     checksum |-> JNull]

\* ---------------------------------------------------- the state machine
VARIABLES
    gen,       \* the SCPGenerator object
    gencall,   \* the last generator call: its name, the exception it raised
               \* and, for the constructor, the type and since it was given
    file,      \* the bytes at hand (returned by generate, or written by hand)
    emitted,   \* the generator and the options the bytes at hand came from
    parser,    \* the SCPParser object of the call: strict, metadata, pages, _errors
    call,      \* the frame of the current or the last parse call
    calls,     \* the number of parse calls begun
    codec,     \* the frame of a direct call of the compression module
    fcall      \* the frame of a direct call of a checksum or schema function

vars == <<gen, gencall, file, emitted, parser, call, calls, codec, fcall>>

NoFile == [exists |-> FALSE, data |-> PlainBytes(<<>>)]
NoCall == [op |-> "none", exc |-> "", msg |-> ""]
NotEmitted == [by |-> "none", gen |-> NoGenerator, include_checksum |-> FALSE, compress |-> ""]

Init ==
    /\ gen = NoGenerator
    /\ gencall = NoCall
    /\ file = NoFile
    /\ emitted = NotEmitted
    /\ parser \in [strict : BOOLEAN, metadata : {NoMetadata}, pages : {<<>>}, errors : {<<>>}]
    /\ call = IdleCall
    /\ calls = 0
    /\ codec = IdleCodec
    /\ fcall = IdleFn

Building == calls = 0 /\ call.pc = "idle"

Construct ==
    /\ Building /\ gen.state = "none" /\ gencall.op = "none" /\ ~file.exists
    /\ \E collection_type \in {"snapshot", "delta", "incremental"},
          since \in {JNull, JStr(""), JStr(Since)} :
         LET r == SCPGenerator("test", "blog", collection_type, since, "0.1")
         IN  /\ gen' = r.val
             /\ gencall' = [op |-> "init", exc |-> r.exc, msg |-> r.msg,
                            collection_type |-> collection_type, since |-> since]
    /\ UNCHANGED <<file, emitted, parser, call, calls, codec, fcall>>

AddPage ==
    /\ Building /\ gen.state = "ready" /\ Len(gen.pages) < MaxPages
    /\ \E a \in AddPageArgs :
         /\ gen' = [gen EXCEPT !.pages =
                      Append(@, add_page(JStr(a[1]), JStr("Home"), JStr("Homepage"), JStr(Now),
                                         JStr("en"), a[2], a[3], JNull, JNull, a[4], JNull))]
         /\ gencall' = [op |-> "add_page", exc |-> "", msg |-> "",
                        author |-> a[3], robots |-> a[4]]
    /\ UNCHANGED <<file, emitted, parser, call, calls, codec, fcall>>

AddPageDict ==
    /\ Building /\ gen.state = "ready" /\ Len(gen.pages) < MaxPages
    /\ \E page \in AddPageDictArgs : gen' = [gen EXCEPT !.pages = Append(@, page)]
    /\ gencall' = [op |-> "add_page_dict", exc |-> "", msg |-> ""]
    /\ UNCHANGED <<file, emitted, parser, call, calls, codec, fcall>>

Generate ==
    /\ Building /\ gen.state = "ready"
    /\ \E include_checksum \in BOOLEAN, compress \in {"gzip", "zstd", "None", "brotli"} :
         LET r == generate(gen, Now, include_checksum, compress, 6)
         IN  /\ gencall' = [op |-> "generate", exc |-> r.exc, msg |-> r.msg]
             /\ IF r.exc = ""
                THEN /\ file' = [exists |-> TRUE, data |-> r.data]
                     /\ emitted' = [by |-> "generate", gen |-> gen,
                                    include_checksum |-> include_checksum,
                                    compress |-> compress]
                ELSE UNCHANGED <<file, emitted>>
    /\ UNCHANGED <<gen, parser, call, calls, codec, fcall>>

WriteFile ==
    /\ Building /\ gen.state = "none" /\ gencall.op = "none" /\ ~file.exists
    /\ \E data \in HandWritten : file' = [exists |-> TRUE, data |-> data]
    /\ emitted' = [NotEmitted EXCEPT !.by = "hand"]
    /\ UNCHANGED <<gen, gencall, parser, call, calls, codec, fcall>>

CanCall == file.exists /\ call.pc \in {"idle", "returned", "raised"} /\ calls < MaxCalls

ParseFile ==
    /\ CanCall
    /\ LET r == ParseFileHeader(parser, file.data)
       IN  parser' = r.p /\ call' = r.call
    /\ calls' = calls + 1
    /\ UNCHANGED <<gen, gencall, file, emitted, codec, fcall>>

ParseBytes ==
    /\ CanCall
    /\ LET r == ParseBytesHeader(parser, file.data)
       IN  parser' = r.p /\ call' = r.call
    /\ calls' = calls + 1
    /\ UNCHANGED <<gen, gencall, file, emitted, codec, fcall>>

FileRecord ==
    /\ call.pc = "pages" /\ call.entry = "file" /\ call.line_num <= Len(call.lines)
    /\ LET r == ParseFileRecord(parser, call)
       IN  parser' = r.p /\ call' = r.call
    /\ UNCHANGED <<gen, gencall, file, emitted, calls, codec, fcall>>

BytesRecord ==
    /\ call.pc = "pages" /\ call.entry = "bytes" /\ call.line_num <= Len(call.lines)
    /\ LET r == ParseBytesRecord(parser, call)
       IN  parser' = r.p /\ call' = r.call
    /\ UNCHANGED <<gen, gencall, file, emitted, calls, codec, fcall>>

\* parse_collection: parse_file on a parser of its own.
ParseCollection ==
    /\ CanCall
    /\ LET r == ParseFileHeader(SCPParser_init(parser.strict), file.data)
       IN  parser' = r.p /\ call' = [r.call EXCEPT !.entry = "collection"]
    /\ calls' = calls + 1
    /\ UNCHANGED <<gen, gencall, file, emitted, codec, fcall>>

CollectionRecord ==
    /\ call.pc = "pages" /\ call.entry = "collection" /\ call.line_num <= Len(call.lines)
    /\ LET r == ParseFileRecord(parser, call)
       IN  parser' = r.p /\ call' = [r.call EXCEPT !.entry = "collection"]
    /\ UNCHANGED <<gen, gencall, file, emitted, calls, codec, fcall>>

\* return self.metadata, self.pages
Return ==
    /\ call.pc = "pages" /\ call.line_num > Len(call.lines)
    /\ call' = [call EXCEPT !.pc = "returned"]
    /\ UNCHANGED <<gen, gencall, file, emitted, parser, calls, codec, fcall>>

Next ==
    \/ Construct
    \/ AddPage
    \/ AddPageDict
    \/ Generate
    \/ WriteFile
    \/ ParseFile
    \/ ParseBytes
    \/ FileRecord
    \/ BytesRecord
    \/ ParseCollection
    \/ CollectionRecord
    \/ Return

Spec == Init /\ [][Next]_vars

\* What the caller holds once an entry point has returned: the methods
\* return (metadata, pages) and leave the parser, with its errors property,
\* in the caller's hands; parse_collection returns the tuple alone.
CallerHolds ==
    IF call.entry = "collection"
    THEN [metadata |-> parser.metadata, pages |-> parser.pages]
    ELSE [metadata |-> parser.metadata, pages |-> parser.pages, errors |-> parser.errors]

\* ------------------------------------------- one parser, several inputs
\* Documents handed in turn to one SCPParser object: a clean one, ones with
\* a bad record, one with blocks of an unknown type, one with a bad header,
\* one whose header carries the checksum of other bytes.
ReuseFiles ==
    { PlainBytes(<<SnapshotHeader, dumps(ValidPage)>>),
      PlainBytes(<<SnapshotHeader, GarbageLine(8), dumps(ValidPage)>>),
      PlainBytes(<<SnapshotHeader, dumps(BadUrlPage), dumps(ValidPage)>>),
      PlainBytes(<<SnapshotHeader, dumps(WidgetPage)>>),
      PlainBytes(<<GarbageLine(8), dumps(ValidPage)>>),
      PlainBytes(<<dumps(Meta("snapshot", [checksum |-> calculate_checksum(PlainBytes(<<>>))])),
                   dumps(ValidPage)>>) }

InitReuse ==
    /\ gen = NoGenerator
    /\ gencall = NoCall
    /\ file \in {[exists |-> TRUE, data |-> data] : data \in ReuseFiles}
    /\ emitted = [NotEmitted EXCEPT !.by = "hand"]
    /\ parser \in {SCPParser_init(strict) : strict \in BOOLEAN}
    /\ call = IdleCall
    /\ calls = 0
    /\ codec = IdleCodec
    /\ fcall = IdleFn

\* A further call on the same parser object, once the previous has ended.
CanCallAgain ==
    /\ call.pc \in {"returned", "raised"}
    /\ calls >= MaxCalls /\ calls < MaxCalls + MaxAgain

ParseFileAgain ==
    /\ CanCallAgain
    /\ \E data \in ReuseFiles :
         /\ file' = [exists |-> TRUE, data |-> data]
         /\ LET r == ParseFileHeader(parser, data)
            IN  parser' = r.p /\ call' = r.call
    /\ calls' = calls + 1
    /\ UNCHANGED <<gen, gencall, emitted, codec, fcall>>

ParseBytesAgain ==
    /\ CanCallAgain
    /\ \E data \in ReuseFiles :
         /\ file' = [exists |-> TRUE, data |-> data]
         /\ LET r == ParseBytesHeader(parser, data)
            IN  parser' = r.p /\ call' = r.call
    /\ calls' = calls + 1
    /\ UNCHANGED <<gen, gencall, emitted, codec, fcall>>

NextReuse ==
    \/ ParseFile
    \/ ParseBytes
    \/ ParseFileAgain
    \/ ParseBytesAgain
    \/ FileRecord
    \/ BytesRecord
    \/ Return

SpecReuse == InitReuse /\ [][NextReuse]_vars

\* --------------------------------- direct calls of the compression module
\* Arguments of detect_compression: byte strings by their first bytes.
HeadSamples ==
    { <<>>, <<31>>, <<31, 139>>, <<31, 139, 8>>, <<31, 139, 8, 0>>, <<31, 139, 0, 0>>,
      <<40, 181, 47>>, <<40, 181, 47, 253>>, <<40, 181, 47, 0>>, <<31, 181, 47, 253>>,
      <<139, 31, 8, 0>>, <<123, 34, 99, 111>> }

DetectInputs == {CodecBytes(head, 1, <<>>, 0, -1) : head \in HeadSamples}

\* Arguments of decompress_*: the compressed length, the length the stream
\* expands to and the point where the codec fails (-1: sound), in KiB.
StreamShapes ==
    { <<0, 0, -1>>, <<1, 1, -1>>, <<1, 20, -1>>, <<1, 1000, -1>>, <<1, MaxStreamKiB, -1>>,
      <<11, 1100, -1>>, <<11, 1101, -1>>, <<20, 1600, -1>>,
      <<1, 20, 0>>, <<1, 20, 12>>, <<1, 20, 20>>,
      <<1, MaxStreamKiB, 100>>, <<1, MaxStreamKiB, 1500>>,
      <<MAX_COMPRESSED_SIZE + 1, 0, -1>> }

Streams == {CodecBytes(<<31, 139, 8, 0>>, s[1], SmallText, s[2], s[3]) : s \in StreamShapes}

MaxSizes == {16, 1500, MAX_DECOMPRESSED_SIZE}

\* Arguments of compress_*: the empty string, a short document, runs of
\* one byte just below 1 MiB and of 1 MiB, and a string past the ceiling.
RawData ==
    { PlainBytes(<<>>), PlainBytes(SmallText),
      PlainBytes(<<RunLine(1023 * 1024)>>), PlainBytes(<<RunLine(1024 * 1024)>>),
      CodecBytes(<<65, 65, 65, 65>>, MAX_DECOMPRESSED_SIZE + 1, <<>>,
                 MAX_DECOMPRESSED_SIZE + 1, -1) }

InitCodec == Init /\ ~parser.strict

Detect ==
    /\ codec.pc = "idle"
    /\ \E data \in DetectInputs :
         codec' = [codec EXCEPT !.pc = "returned", !.fn = "detect_compression",
                                !.data = data, !.format = detect_compression(data)]
    /\ UNCHANGED <<gen, gencall, file, emitted, parser, call, calls, fcall>>

Compress ==
    /\ codec.pc = "idle"
    /\ \E d \in RawData, fn \in {"compress_gzip", "compress_zstd"}, level \in Levels :
         LET r == IF fn = "compress_gzip" THEN compress_gzip(d, level)
                  ELSE compress_zstd(d, level)
         IN  codec' = [codec EXCEPT !.pc = IF r.exc = "" THEN "compressed" ELSE "raised",
                                    !.fn = fn, !.input = d, !.compressed_by = fn,
                                    !.exc = r.exc, !.result = r.data]
    /\ UNCHANGED <<gen, gencall, file, emitted, parser, call, calls, fcall>>

\* decompress_*(data, max_size) on a stream from outside.
DecompressStream ==
    /\ codec.pc = "idle"
    /\ \E fn \in {"decompress_gzip", "decompress_zstd"}, data \in Streams,
          max_size \in MaxSizes :
         codec' = DecompressEnter(codec, fn, data, max_size)
    /\ UNCHANGED <<gen, gencall, file, emitted, parser, call, calls, fcall>>

\* decompress_*(compress_*(d)): max_size is None.
DecompressCompressed ==
    /\ codec.pc = "compressed"
    /\ codec' = DecompressEnter(codec,
                                IF codec.fn = "compress_gzip" THEN "decompress_gzip"
                                ELSE "decompress_zstd",
                                codec.result, MAX_DECOMPRESSED_SIZE)
    /\ UNCHANGED <<gen, gencall, file, emitted, parser, call, calls, fcall>>

ReadChunk ==
    /\ codec.pc = "loop"
    /\ codec' = LoopStep(codec)
    /\ UNCHANGED <<gen, gencall, file, emitted, parser, call, calls, fcall>>

NextCodec ==
    \/ Detect
    \/ Compress
    \/ DecompressStream
    \/ DecompressCompressed
    \/ ReadChunk

SpecCodec == InitCodec /\ [][NextCodec]_vars

\* The read loop runs on: nothing suspends it.
FairCodec == SpecCodec /\ WF_vars(ReadChunk)

\* ------------------------------------------- the generator, at any level
\* generate(include_checksum, compress, compress_level) with the level
\* given by the caller.
GenerateAtLevel ==
    /\ Building /\ gen.state = "ready"
    /\ \E include_checksum \in BOOLEAN, compress \in {"gzip", "zstd", "None", "brotli"},
          compress_level \in Levels :
         LET r == generate(gen, Now, include_checksum, compress, compress_level)
         IN  /\ gencall' = [op |-> "generate", exc |-> r.exc, msg |-> r.msg]
             /\ IF r.exc = ""
                THEN /\ file' = [exists |-> TRUE, data |-> r.data]
                     /\ emitted' = [by |-> "generate", gen |-> gen,
                                    include_checksum |-> include_checksum,
                                    compress |-> compress]
                ELSE UNCHANGED <<file, emitted>>
    /\ UNCHANGED <<gen, parser, call, calls, codec, fcall>>

NextGen ==
    \/ Construct
    \/ AddPage
    \/ AddPageDict
    \/ GenerateAtLevel

SpecGen == Init /\ [][NextGen]_vars

\* ------------------------ direct calls of the checksum and schema functions
\* Byte strings handed to the checksum functions.
ChecksumData ==
    { PlainBytes(<<>>), PlainBytes(SmallText), PlainBytes(<<SnapshotHeader>>),
      PlainBytes(<<GarbageLine(8)>>) }

\* Tags: well-formed ones in either case, ones with another prefix or with
\* 63 or 65 digits, and strings that are no tag at all.
Tags ==
    {JTag(prefix, ndigits, upper, digest) :
       prefix \in {"sha256:", "md5:"}, ndigits \in {63, 64, 65}, upper \in BOOLEAN,
       digest \in ChecksumData}
    \cup {JStr("invalid"), JStr("sha256:short"), JStr("")}

\* Pages handed to validate_page: content lists around the ceiling, on a
\* page that is otherwise valid and on one that is not.
Blocks(n) == JArr([i \in 1..n |-> TextBlock])

FnPages ==
    {PageDict(url, Blocks(n)) :
       url \in {"https://example.com/a", "not-a-url"},
       n \in {0, 1, MAX_CONTENT_BLOCKS - 1, MAX_CONTENT_BLOCKS, MAX_CONTENT_BLOCKS + 1,
              MAX_CONTENT_BLOCKS + 2}}
    \cup {ValidPage, WidgetPage, BadUrlPage, NullContentPage, JObj(<<>>), JNum(5), JNull,
          JArr(<<>>), DelKey(PageDict("https://example.com/a", Blocks(1)), "title"),
          DelKey(PageDict("https://example.com/a", Blocks(1)), "content")}

\* Blocks handed to validate_content_block: for each type, known or not,
\* one with the sub-fields of its variant and one with the type alone;
\* headings of every level; blocks without a type or with one that is not
\* a string.
FullBlock(type) ==
    JObj([k \in VariantFields(type) \cup {"type"} |->
            IF k = "type" THEN JStr(type)
            ELSE IF k = "level" THEN JNum(1)
            ELSE JStr("x")])

FnBlocks ==
    {FullBlock(type) : type \in KnownTypes \cup {"widget-v2", "unknown", ""}}
    \cup {JObj([type |-> JStr(type)]) : type \in KnownTypes \cup {"widget-v2"}}
    \cup {HeadingBlock(level) : level \in 0..7}
    \cup {JObj([type |-> JStr("heading"), level |-> JStr("2"), text |-> JStr("Title")])}
    \cup {JObj([text |-> JStr("Hello")]), JObj(<<>>), JObj([type |-> JNum(5)]),
          JObj([type |-> JNull]), JObj([type |-> JArr(<<JStr("text")>>)]),
          JObj([type |-> JObj(<<>>), text |-> JStr("Hello")]), JStr("text"), JNull}

InitFn == Init /\ ~parser.strict

CalculateChecksum ==
    /\ fcall.pc = "idle"
    /\ \E data \in ChecksumData :
         fcall' = [fcall EXCEPT !.pc = "returned", !.fn = "calculate_checksum",
                                !.data = data, !.checksum = calculate_checksum(data)]
    /\ UNCHANGED <<gen, gencall, file, emitted, parser, call, calls, codec>>

ValidateChecksum ==
    /\ fcall.pc = "idle"
    /\ \E data \in ChecksumData, tag \in Tags :
         LET r == validate_checksum(data, tag)
         IN  fcall' = [fcall EXCEPT !.pc = IF r.exc = "" THEN "returned" ELSE "raised",
                                    !.fn = "validate_checksum", !.data = data, !.tag = tag,
                                    !.exc = r.exc, !.msg = r.msg, !.val = r.val,
                                    !.expected = r.expected, !.got = r.got]
    /\ UNCHANGED <<gen, gencall, file, emitted, parser, call, calls, codec>>

ValidatePage ==
    /\ fcall.pc = "idle"
    /\ \E page \in FnPages :
         LET r == validate_page(page)
         IN  fcall' = [fcall EXCEPT !.pc = IF r.exc = "" THEN "returned" ELSE "raised",
                                    !.fn = "validate_page", !.arg = page,
                                    !.exc = r.exc, !.msg = r.msg]
    /\ UNCHANGED <<gen, gencall, file, emitted, parser, call, calls, codec>>

ValidateContentBlock ==
    /\ fcall.pc = "idle"
    /\ \E block \in FnBlocks :
         LET r == validate_content_block(block)
         IN  fcall' = [fcall EXCEPT !.pc = IF r.exc = "" THEN "returned" ELSE "raised",
                                    !.fn = "validate_content_block", !.arg = block,
                                    !.exc = r.exc, !.msg = r.msg, !.val = r.val]
    /\ UNCHANGED <<gen, gencall, file, emitted, parser, call, calls, codec>>

NextFn ==
    \/ CalculateChecksum
    \/ ValidateChecksum
    \/ ValidatePage
    \/ ValidateContentBlock

SpecFn == InitFn /\ [][NextFn]_vars

\* ------------------------------------------------------------ the claims
\* What the claims speak of.
FromGenerate == emitted.by = "generate"
Ended == call.pc \in {"returned", "raised"}
FileCall == call.entry = "file"

\* The text a byte string holds once decompressed.
TextOf(data) == DecompressDetected(data).data.text

\* A record that conforms to the page schema, and one with no block of an
\* unknown type.
SchemaValid(val) == PAGE_SCHEMA(val)
UnknownBlocks(val) ==
    {i \in DOMAIN val.v["content"].v : val.v["content"].v[i].v["type"].v \notin KnownTypes}

\* The state before a turn of the page loop of parse_file, and its record.
AtFileRecord ==
    call.pc = "pages" /\ call.entry = "file" /\ call.line_num <= Len(call.lines)
Record == call.lines[call.line_num]
Skipped ==
    /\ call'.pc = "pages"
    /\ call'.line_num = call.line_num + 1
    /\ parser'.pages = parser.pages

\* C1: round-trip.  Parsing (parse_file, strict or lenient) the bytes that
\* generate() returned for a generator holding only schema-valid pages
\* returns, and returns the generator's id, section, type, since and
\* version and its pages in order.
C1_RoundTrip ==
    (/\ FromGenerate /\ FileCall /\ Ended
     /\ \A i \in DOMAIN emitted.gen.pages : SchemaValid(emitted.gen.pages[i]))
    => /\ call.pc = "returned"
       /\ parser.metadata.id = JStr(emitted.gen.collection_id)
       /\ parser.metadata.section = JStr(emitted.gen.section)
       /\ parser.metadata.type = JStr(emitted.gen.collection_type)
       /\ parser.metadata.version = JStr(emitted.gen.version)
       /\ parser.metadata.since =
            (IF Truthy(emitted.gen.since) THEN emitted.gen.since ELSE JNull)
       /\ [i \in DOMAIN parser.pages |-> parser.pages[i].raw] = emitted.gen.pages

\* C2: a document generated with include_checksum=True passes the
\* checksum verification of the parser: no checksum failure is raised and
\* none is recorded.
C2_GeneratedChecksumVerifies ==
    (FromGenerate /\ emitted.include_checksum /\ FileCall /\ call.pc # "idle")
    => /\ call.exc # "ChecksumError"
       /\ \A i \in DOMAIN parser.errors : parser.errors[i].kind # "Checksum validation failed"

\* C3: the checksum stamped in record 0 is the checksum of the output with
\* the checksum key removed from record 0, and the page records of the
\* output are the ones that were hashed and the ones of the generator.
C3_StampedChecksum ==
    (FromGenerate /\ emitted.include_checksum)
    => LET text == TextOf(file.data)
           metadata == loads(text[1]).val
           stamped == metadata.v["collection"].v["checksum"]
           stripped == JObj([collection |-> DelKey(metadata.v["collection"], "checksum")])
       IN  /\ stamped = calculate_checksum(PlainBytes(<<dumps(stripped)>> \o Tail(text)))
           /\ Tail(stamped.v.digest.text) = Tail(text)
           /\ Tail(text) = [i \in 1..Len(emitted.gen.pages) |-> dumps(emitted.gen.pages[i])]

C3_Witness ==
    /\ FromGenerate /\ emitted.include_checksum
    /\ Len(emitted.gen.pages) = 2
    /\ emitted.compress = "gzip"

\* A document whose records are all valid, without a block of an unknown
\* type; its checksum, if any, is the one generate() stamped.
AllValid ==
    /\ \A n \in 2..Len(call.lines) :
         \/ call.lines[n].kind = "blank"
         \/ /\ call.lines[n].kind = "json"
            /\ call.lines[n].size <= MAX_PAGE_SIZE
            /\ SchemaValid(call.lines[n].val)
            /\ UnknownBlocks(call.lines[n].val) = {}
    /\ Truthy(parser.metadata.checksum) => FromGenerate

\* C4: when a parse of an all-valid document reaches the end of input, the
\* diagnostics list is empty.
C4_NoDiagnosticsWhenAllValid ==
    (call.pc = "returned" /\ FileCall /\ AllValid) => parser.errors = <<>>

BadRecord(line) ==
    /\ line.kind # "blank"
    /\ line.kind = "json" => ~SchemaValid(line.val)

\* C6: in lenient mode a turn of the page loop on a record (within the size
\* limit) that fails JSON parsing or schema validation skips it, appends
\* exactly one diagnostic naming its line, and goes on.
C6_LenientSkips ==
    [][(AtFileRecord /\ ~parser.strict /\ BadRecord(Record) /\ Record.size <= MAX_PAGE_SIZE)
       => /\ Skipped
          /\ Len(parser'.errors) = Len(parser.errors) + 1
          /\ parser'.errors[Len(parser'.errors)].line = call.line_num]_vars

\* C7: in strict mode a turn of the page loop on a record (within the size
\* limit) that fails JSON parsing or schema validation raises a
\* ValidationError naming its line, and the parse ends there.
C7_StrictAborts ==
    [][(AtFileRecord /\ parser.strict /\ BadRecord(Record) /\ Record.size <= MAX_PAGE_SIZE)
       => /\ call'.pc = "raised"
          /\ call'.exc = "ValidationError"
          /\ call'.line = call.line_num
          /\ parser'.pages = parser.pages]_vars

\* C8: a turn of the page loop on a record longer than MAX_PAGE_SIZE raises
\* SizeLimitError in both modes, whether or not the record is valid JSON.
C8_OversizeFatal ==
    [][(AtFileRecord /\ Record.kind # "blank" /\ Record.size > MAX_PAGE_SIZE)
       => /\ call'.pc = "raised"
          /\ call'.exc = "SizeLimitError"
          /\ parser'.errors = parser.errors]_vars

\* The header-level failures of a byte string: a codec stream that is
\* corrupt or expands past the limits, an empty document, a record 0 that
\* is not JSON, has no collection key, or violates the collection schema.
StreamFails(data) ==
    /\ detect_compression(data) # "none"
    /\ \/ data.failat >= 0
       \/ data.dsize >= MIN_SIZE_FOR_RATIO_CHECK /\ data.dsize > MAX_COMPRESSION_RATIO * data.len

EmptyDocument(data) ==
    ~StreamFails(data) /\ \A i \in DOMAIN TextOf(data) : TextOf(data)[i].kind = "blank"

HeaderFails(data) ==
    \/ StreamFails(data)
    \/ EmptyDocument(data)
    \/ LET first == Head(LStrip(TextOf(data)))
       IN  \/ first.kind = "garbage"
           \/ ~IsObj(first.val)
           \/ "collection" \notin DOMAIN first.val.v
           \/ ~COLLECTION_SCHEMA(first.val)

\* C9: a parse call (parse_file or parse_bytes, strict or lenient) on bytes
\* with a header-level failure raises; it appends no diagnostic and no
\* page, and never enters the page loop.
C9_HeaderFailuresFatal ==
    [][(CanCall /\ calls' = calls + 1 /\ HeaderFails(file.data))
       => /\ call'.pc = "raised"
          /\ call'.exc # ""
          /\ parser'.errors = parser.errors
          /\ parser'.pages = parser.pages]_vars

C9_Witness ==
    /\ call.pc = "raised" /\ call.exc = "CompressionBombError"
    /\ ~parser.strict
    /\ HeaderFails(file.data)

\* C10: an empty document is rejected with a ValidationError reporting
\* 'Empty', by parse_file and by parse_bytes.
C10_EmptyRejected ==
    (calls > 0 /\ EmptyDocument(file.data))
    => /\ call.pc = "raised"
       /\ call.exc = "ValidationError"
       /\ call.msg \in {"Empty file", "Empty data"}

\* A document whose header is valid and carries a well-formed checksum that
\* is not the checksum of the document with the checksum field removed.
ChecksumMismatch(data) ==
    /\ ~HeaderFails(data)
    /\ LET text == TextOf(data)
           metadata == loads(text[1]).val
           coll == metadata.v["collection"]
           stripped == JObj([collection |-> DelKey(coll, "checksum")])
       IN  /\ "checksum" \in DOMAIN coll.v
           /\ CHECKSUM_PATTERN(coll.v["checksum"])
           /\ Lower(coll.v["checksum"]) #
                calculate_checksum(PlainBytes(<<dumps(stripped)>> \o Tail(text)))

\* C11: a parse_file call on a document whose header checksum does not
\* verify raises ChecksumError in strict mode, with no page appended; in
\* lenient mode it appends exactly one diagnostic, the checksum failure,
\* and enters the page loop at the first page record.
C11_ChecksumMismatchPolicy ==
    [][(CanCall /\ calls' = calls + 1 /\ call'.entry = "file" /\ ChecksumMismatch(file.data))
       => IF parser.strict
          THEN /\ call'.pc = "raised"
               /\ call'.exc = "ChecksumError"
               /\ parser'.pages = parser.pages
               /\ parser'.errors = parser.errors
          ELSE /\ call'.pc = "pages"
               /\ call'.line_num = 2
               /\ call'.lines = TextOf(file.data)
               /\ parser'.errors =
                    Append(parser.errors, Diag("Checksum validation failed", 0, -1))]_vars

C11_Witness ==
    /\ call.pc = "returned" /\ FileCall /\ ~parser.strict
    /\ ChecksumMismatch(file.data)
    /\ Len(parser.pages) = 1
    /\ parser.errors = <<Diag("Checksum validation failed", 0, -1)>>

\* The lines of the page records that fail JSON parsing or schema
\* validation, in ascending order.
RecoveredLines(lines) ==
    SelectSeq([n \in 1..Len(lines) |-> n], LAMBDA n : n >= 2 /\ BadRecord(lines[n]))

RecordFailure(d) ==
    d.kind \in {"Invalid JSON", "Page validation failed", "Failed to parse page"}

\* C12: after a lenient call of any entry point has returned, the caller
\* holds a diagnostics list, and its entries for skipped records name the
\* lines of the bad records of the document, one each, in ascending order.
C12_DiagnosticsSurfaced ==
    (call.pc = "returned" /\ ~parser.strict)
    => /\ "errors" \in DOMAIN CallerHolds
       /\ LET failures == SelectSeq(CallerHolds.errors, RecordFailure)
          IN  [i \in DOMAIN failures |-> failures[i].line] = RecoveredLines(call.lines)

\* The outcome of a whole call of an entry point on a parser that has
\* parsed nothing: the parser fields and the last frame.
RECURSIVE RunLoop(_)
RunLoop(r) ==
    IF r.call.pc = "pages" /\ r.call.line_num <= Len(r.call.lines)
    THEN RunLoop(IF r.call.entry = "file" THEN ParseFileRecord(r.p, r.call)
                 ELSE ParseBytesRecord(r.p, r.call))
    ELSE r

FreshOutcome(entry, strict, data) ==
    RunLoop(IF entry = "file" THEN ParseFileHeader(SCPParser_init(strict), data)
            ELSE ParseBytesHeader(SCPParser_init(strict), data))

\* C13: when a call on a parser object has ended, it has returned or
\* raised as the same call on a fresh parser would, the metadata and pages
\* it returned are those a fresh parser returns, and the diagnostics the
\* parser exposes are those a fresh parser exposes.
C13_ParsesIndependent ==
    (call.pc \in {"returned", "raised"} /\ call.entry \in {"file", "bytes"})
    => LET fresh == FreshOutcome(call.entry, parser.strict, file.data)
       IN  /\ (call.pc = "raised") = (fresh.call.pc = "raised")
           /\ call.exc = fresh.call.exc
           /\ call.pc = "returned" =>
                /\ parser.metadata = fresh.p.metadata
                /\ parser.pages = fresh.p.pages
           /\ parser.errors = fresh.p.errors

\* A call of decompress_gzip or decompress_zstd, and the two limits on a
\* number of decompressed KiB.
DecompressCall == codec.fn \in {"decompress_gzip", "decompress_zstd"}

WithinLimits(n) ==
    /\ n <= codec.max_size
    /\ n >= MIN_SIZE_FOR_RATIO_CHECK => n <= MAX_COMPRESSION_RATIO * codec.compressed_size

\* What the stream yields before it ends or the codec fails.
Yielded(data) == IF data.failat >= 0 THEN Min(data.dsize, data.failat) ELSE data.dsize

\* C14: at every turn of the read loop the output buffer stays within
\* max_size and within 100 times the compressed length once it holds
\* 1 MiB; a chunk that would take the total past a limit raises
\* CompressionBombError in that turn and is not written; a call that
\* returns has written the whole stream, within both limits.
C14_LimitsNeverExceeded ==
    [][(DecompressCall /\ codec.pc = "loop")
       => LET chunk == Min(chunk_size, Yielded(codec.data) - codec.total_decompressed)
              total == codec.total_decompressed + chunk
          IN  /\ WithinLimits(codec'.output)
              /\ (chunk > 0 /\ ~WithinLimits(total))
                   => /\ codec'.pc = "raised"
                      /\ codec'.exc = "CompressionBombError"
                      /\ codec'.output = codec.output
              /\ codec'.pc = "returned" => codec'.output = codec.data.dsize]_vars

C14_Witness ==
    /\ DecompressCall /\ codec.pc = "raised" /\ codec.exc = "CompressionBombError"
    /\ codec.max_size = 16 /\ codec.output = 16 /\ codec.data.dsize = 20

\* C15: a stream that yields less than 1 MiB in all, and no more than
\* max_size, is never rejected as a bomb, whatever its ratio.
C15_RatioGatedByThreshold ==
    (/\ DecompressCall
     /\ Yielded(codec.data) < MIN_SIZE_FOR_RATIO_CHECK
     /\ Yielded(codec.data) <= codec.max_size)
    => codec.exc # "CompressionBombError"

C15_Witness ==
    /\ DecompressCall /\ codec.pc = "returned"
    /\ codec.compressed_size = 1 /\ codec.output = 1000

\* C16: a decompress call that raised with the running total past a limit
\* raised CompressionBombError; one that raised with the total within the
\* limits raised DecompressionError, on a failure of the codec or on the
\* ceiling of the compressed size.
C16_FailuresDistinct ==
    (DecompressCall /\ codec.pc = "raised")
    => IF ~WithinLimits(codec.total_decompressed)
       THEN codec.exc = "CompressionBombError"
       ELSE /\ codec.exc = "DecompressionError"
            /\ \/ codec.data.failat >= 0
               \/ codec.compressed_size > MAX_COMPRESSED_SIZE

C16_Witness ==
    /\ DecompressCall /\ codec.pc = "raised" /\ codec.exc = "CompressionBombError"
    /\ codec.data.failat = 1500

\* C17: a decompress call that has entered the read loop eventually
\* returns or raises.
C17_LoopTerminates ==
    (DecompressCall /\ codec.pc = "loop") ~> (codec.pc \in {"returned", "raised"})

C17_Witness ==
    /\ DecompressCall /\ codec.pc = "returned"
    /\ codec.output = 1100 /\ codec.total_decompressed = 1100

\* C18: detect_compression returns none for an input shorter than 4 bytes;
\* for a longer one gzip iff its first two bytes are 1F 8B, else zstd iff
\* its first four bytes are 28 B5 2F FD, else none.
C18_DetectByMagic ==
    (codec.fn = "detect_compression" /\ codec.pc = "returned")
    => LET head == codec.data.head
           isGzip == Len(head) >= 4 /\ head[1] = 31 /\ head[2] = 139
           isZstd == /\ Len(head) >= 4 /\ ~isGzip
                     /\ head[1] = 40 /\ head[2] = 181 /\ head[3] = 47 /\ head[4] = 253
       IN  /\ codec.format \in {"gzip", "zstd", "none"}
           /\ codec.format = "gzip" <=> isGzip
           /\ codec.format = "zstd" <=> isZstd

C18_Witness ==
    /\ codec.fn = "detect_compression" /\ codec.pc = "returned"
    /\ codec.data.head = <<31, 139, 8>> /\ codec.format = "none"

\* A decompress call on the result of compress_* that has ended.
RoundTripEnded ==
    DecompressCall /\ codec.compressed_by # "" /\ codec.pc \in {"returned", "raised"}

\* C19 as stated: decompress_*(compress_*(d)) returns d for every d within
\* the size ceilings.
C19_CompressionRoundTrip ==
    RoundTripEnded => (codec.pc = "returned" /\ codec.result = codec.input)

\* C19, amended: decompress_*(compress_*(d)) returns d when d is shorter
\* than 1 MiB or at most 100 times as long as its compressed form;
\* otherwise it raises CompressionBombError.
C19_RoundTripUnlessBomb ==
    RoundTripEnded
    => IF /\ codec.input.len >= MIN_SIZE_FOR_RATIO_CHECK
          /\ codec.input.len > MAX_COMPRESSION_RATIO * codec.compressed_size
       THEN codec.pc = "raised" /\ codec.exc = "CompressionBombError"
       ELSE codec.pc = "returned" /\ codec.result = codec.input

C19_Witness ==
    /\ RoundTripEnded /\ codec.pc = "returned"
    /\ codec.input = PlainBytes(<<RunLine(1023 * 1024)>>)
    /\ codec.result = codec.input

\* C20: constructing a delta generator without since (None or empty)
\* raises ValidationError and yields no generator; with since it succeeds
\* and keeps the value; the header generate() emits for a delta carries
\* that since, and so does the metadata parse_file builds from it.
C20_DeltaValidity ==
    /\ (gencall.op = "init" /\ gencall.collection_type = "delta")
       => IF Truthy(gencall.since)
          THEN /\ gencall.exc = ""
               /\ gen.state = "ready" /\ gen.collection_type = "delta"
               /\ gen.since = gencall.since
          ELSE gencall.exc = "ValidationError" /\ gen = NoGenerator
    /\ (FromGenerate /\ emitted.gen.collection_type = "delta")
       => /\ loads(TextOf(file.data)[1]).val.v["collection"].v["since"] = emitted.gen.since
          /\ (FileCall /\ parser.metadata # NoMetadata)
               => parser.metadata.since = emitted.gen.since

C20_Witness ==
    /\ FromGenerate /\ emitted.gen.collection_type = "delta"
    /\ FileCall /\ call.pc = "returned"
    /\ parser.metadata.since = JStr(Since)
    /\ Len(parser.pages) = 2

\* The collection object of record 0 of the bytes at hand.
EmittedCollection == loads(TextOf(file.data)[1]).val.v["collection"]

\* C21: the metadata record generate() emits has a since field if and only
\* if its type is delta, however the generator was constructed.
C21_SinceIffDelta ==
    (FromGenerate /\ gencall.op = "generate" /\ gencall.exc = "")
    => ("since" \in DOMAIN EmittedCollection.v <=> EmittedCollection.v["type"] = JStr("delta"))

\* A call of generate(): the step that records it.
GenerateStep == Building /\ gen.state = "ready" /\ gencall'.op = "generate"

\* C22: generate() on a generator without pages raises ValidationError
\* ('No pages'), whatever include_checksum, compress and compress_level
\* are, yields no bytes and leaves the generator as it was; on a generator
\* with at least one page, however added, it does not fail for that reason.
C22_NoPagesRejected ==
    [][GenerateStep
       => IF gen.pages = <<>>
          THEN /\ gencall'.exc = "ValidationError"
               /\ gencall'.msg = "No pages added to collection"
               /\ ~file'.exists /\ file' = file /\ emitted' = emitted
               /\ gen' = gen
          ELSE /\ gencall'.msg # "No pages added to collection"
               /\ gen' = gen]_vars

C22_Witness ==
    /\ gencall.op = "generate" /\ gencall.exc = "ValidationError"
    /\ gencall.msg = "No pages added to collection"
    /\ gen.state = "ready" /\ gen.pages = <<>> /\ gen.collection_type = "delta"
    /\ ~file.exists

\* A call of validate_checksum that has ended, and a tag that spells
\* "sha256:" and 64 hex digits.
ChecksumCall == fcall.fn = "validate_checksum" /\ fcall.pc \in {"returned", "raised"}

WellFormed(tag) == tag.jt = "hexstr" /\ tag.v.prefix = "sha256:" /\ tag.v.ndigits = 64

C24_ValidatesIffDigestMatches ==
    (ChecksumCall /\ WellFormed(fcall.tag))
    => IF fcall.tag.v.digest = fcall.data
       THEN fcall.pc = "returned" /\ fcall.val = TRUE /\ fcall.exc = ""
       ELSE /\ fcall.pc = "raised" /\ fcall.exc = "ChecksumError"
            /\ fcall.msg = "Checksum mismatch"

C24_Witness ==
    /\ ChecksumCall /\ fcall.pc = "returned" /\ fcall.val = TRUE
    /\ fcall.tag = JTag("sha256:", 64, TRUE, PlainBytes(SmallText))
    /\ fcall.data = PlainBytes(SmallText)

\* A call of validate_page, ended, on a page whose content is a list.
PageCall ==
    /\ fcall.fn = "validate_page" /\ fcall.pc \in {"returned", "raised"}
    /\ IsObj(fcall.arg) /\ "content" \in DOMAIN fcall.arg.v /\ IsArr(fcall.arg.v["content"])

\* C25: validate_page does not reject a page of at most 1000 content
\* blocks for its size (1000 blocks on an otherwise valid page pass); it
\* rejects a page of more than 1000 blocks with a size-limit error, a kind
\* other than the ValidationError of a schema violation.
C25_BlockCeilingIsSizeLimit ==
    PageCall
    => LET n == Len(fcall.arg.v["content"].v)
       IN  /\ n <= 1000
                => /\ fcall.exc # "SizeLimitError"
                   /\ fcall.msg # "Content array has too many blocks"
                   /\ PAGE_SCHEMA(fcall.arg) => fcall.pc = "returned"
           /\ n > 1000 => (fcall.pc = "raised" /\ fcall.exc = "SizeLimitError")
           /\ (n <= 1000 /\ ~PAGE_SCHEMA(fcall.arg))
                => (fcall.pc = "raised" /\ fcall.exc = "ValidationError")

\* A call of validate_content_block, ended, on a dict.
BlockCall ==
    /\ fcall.fn = "validate_content_block" /\ fcall.pc \in {"returned", "raised"}
    /\ IsObj(fcall.arg)

\* C26: validate_content_block raises ValidationError for a block without
\* a type; returns False for a block whose type is not one of the 11 known
\* types; for a known type it returns True when the block has the shape of
\* its variant and raises ValidationError when it has not.
C26_BlockClassified ==
    BlockCall
    => LET block == fcall.arg
           failed == fcall.pc = "raised" /\ fcall.exc = "ValidationError"
       IN  IF "type" \notin DOMAIN block.v THEN failed
           ELSE IF block.v["type"] \notin {JStr(t) : t \in KnownTypes}
           THEN fcall.pc = "returned" /\ fcall.val = FALSE
           ELSE IF VariantShapeOK(block)
           THEN fcall.pc = "returned" /\ fcall.val = TRUE
           ELSE failed

SCPErrors ==
    {"SCPError", "CompressionError", "DecompressionError", "ValidationError", "ChecksumError",
     "SizeLimitError", "CompressionBombError"}

\* C28: a parse_file call on a file that exists, whatever its bytes, fails
\* only with an error of the taxonomy.
C28_OnlyTaxonomyErrors ==
    (call.pc = "raised" /\ call.entry \in {"file", "collection"}) => call.exc \in SCPErrors

\* The other entry point of the parser.
OtherEntry(entry) == IF entry = "file" THEN "bytes" ELSE "file"

\* C29: when the first call on a parser, parse_file or parse_bytes, has
\* ended, the other entry point on the same bytes with the same strict
\* setting ends the same way: both return the same metadata and pages, or
\* both raise an error of the same kind, and both record the same
\* diagnostics.
C29_EntryPointsAgree ==
    (Ended /\ call.entry \in {"file", "bytes"} /\ calls = 1)
    => LET other == FreshOutcome(OtherEntry(call.entry), parser.strict, file.data)
       IN  /\ (call.pc = "raised") = (other.call.pc = "raised")
           /\ call.exc = other.call.exc
           /\ call.pc = "returned" =>
                /\ parser.metadata = other.p.metadata
                /\ parser.pages = other.p.pages
           /\ parser.errors = other.p.errors

\* The header of the current call has been accepted: record 0 is JSON, has
\* the collection key, conforms to the collection schema and is what the
\* metadata was built from, and its checksum, if any, has been verified
\* or, in a lenient parse_file, its failure recorded.
HeaderAccepted ==
    LET first == call.lines[1]
        data == DecompressDetected(file.data).data
    IN  /\ first.kind = "json" /\ IsObj(first.val) /\ "collection" \in DOMAIN first.val.v
        /\ validate_collection_metadata(first.val).exc = ""
        /\ parser.metadata = CollectionMetadata(first.val)
        /\ Truthy(parser.metadata.checksum)
             => \/ validate_checksum(data, parser.metadata.checksum).exc = ""
                \/ /\ ~parser.strict /\ call.entry # "bytes"
                   /\ \E i \in DOMAIN parser.errors :
                        parser.errors[i].kind = "Checksum validation failed"

\* C30: a parse is in the page loop, or done, only with its header
\* accepted; it goes from the start to the page loop or to failure, from
\* the page loop to the page loop (one record on), to done or to failure,
\* and nowhere from done or failure; a page is appended only by a turn of
\* the page loop that stays in the loop, one at a time, and a step that
\* fails appends none.
C30_ParserStates ==
    /\ [](call.pc \in {"pages", "returned"} => HeaderAccepted)
    /\ [][/\ calls' = calls + 1
             => /\ call.pc \in {"idle", "returned", "raised"}
                /\ call'.pc \in {"pages", "raised"}
                /\ call'.pc = "pages" => call'.line_num = 2
                /\ Len(parser'.pages) <= Len(parser.pages)
          /\ (calls' = calls /\ call.pc = "pages")
             => /\ call'.pc \in {"pages", "returned", "raised"}
                /\ call'.pc = "pages" => call'.line_num = call.line_num + 1
                /\ call'.pc = "returned" => call.line_num > Len(call.lines)
                /\ call'.pc # "pages" => parser'.pages = parser.pages
                /\ \/ parser'.pages = parser.pages
                   \/ /\ Len(parser'.pages) = Len(parser.pages) + 1
                      /\ SubSeq(parser'.pages, 1, Len(parser.pages)) = parser.pages
                      /\ parser'.pages[Len(parser'.pages)].raw = call.lines[call.line_num].val
          /\ (calls' = calls /\ call.pc \in {"idle", "returned", "raised"})
             => (call' = call /\ parser' = parser)]_vars

C30_Witness ==
    /\ call.pc = "raised" /\ FileCall /\ parser.strict
    /\ call.line = 2 /\ call.exc = "ValidationError"
    /\ parser.metadata # NoMetadata /\ parser.pages = <<>>
    /\ file.data.text = <<SnapshotHeader, GarbageLine(8), dumps(ValidPage)>>

\* A page record the entry point accepts: JSON that conforms to the page
\* schema and, through parse_file, lies within the page size limit
\* (parse_bytes applies no size limit).
Accepted(entry, line) ==
    /\ line.kind = "json" /\ SchemaValid(line.val)
    /\ entry # "bytes" => line.size <= MAX_PAGE_SIZE

\* The accepted records among the page records before line number n, in
\* the order of the input.
AcceptedBefore(entry, lines, n) ==
    LET idx == SelectSeq([k \in 1..Len(lines) |-> k],
                         LAMBDA k : k >= 2 /\ k < n /\ Accepted(entry, lines[k]))
    IN  [k \in DOMAIN idx |-> lines[idx[k]].val]

\* C31: in the page loop and when a parse has returned, the page list is
\* the sequence of the accepted records read so far, in input order, each
\* once; a returned parse of generated bytes whose pages are all valid
\* holds the generator's pages in the order they were added.
C31_PageOrderIsFileOrder ==
    /\ call.pc \in {"pages", "returned"}
         => [i \in DOMAIN parser.pages |-> parser.pages[i].raw]
              = AcceptedBefore(call.entry, call.lines, call.line_num)
    /\ (/\ call.pc = "returned" /\ FromGenerate
        /\ \A i \in DOMAIN emitted.gen.pages : SchemaValid(emitted.gen.pages[i]))
         => [i \in DOMAIN parser.pages |-> parser.pages[i].raw] = emitted.gen.pages

C31_Witness ==
    /\ call.pc = "returned" /\ FileCall /\ FromGenerate
    /\ Len(emitted.gen.pages) = 2 /\ emitted.gen.pages[1] # emitted.gen.pages[2]
    /\ Len(parser.pages) = 2
    /\ parser.pages[1].raw = emitted.gen.pages[1]
    /\ parser.pages[2].raw = emitted.gen.pages[2]

\* The line of the decompressed text of the file that is number n when the
\* first non-blank line is counted as line 1 and every later line, blank
\* or not, counts one.
LineAt(n) ==
    LET text == TextOf(file.data)
        first == CHOOSE k \in DOMAIN text :
                    text[k].kind # "blank" /\ \A j \in 1..(k - 1) : text[j].kind = "blank"
    IN  text[first + n - 1]

\* C32: a turn of the page loop of parse_file is on the line at its
\* 1-indexed position after the header, blank lines counted; on a blank
\* line it adds no page and no diagnostic and does not raise, in either
\* mode; on any other line every diagnostic it adds and the error it
\* raises name that position.
C32_BlankLinesSkipped ==
    [][AtFileRecord
       => /\ Record = LineAt(call.line_num)
          /\ IF Record.kind = "blank"
             THEN Skipped /\ parser' = parser
             ELSE /\ Len(parser'.errors) >= Len(parser.errors)
                  /\ \A i \in (Len(parser.errors) + 1)..Len(parser'.errors) :
                       parser'.errors[i].line = call.line_num
                  /\ (call'.pc = "raised" /\ call'.msg # "") => call'.line = call.line_num]_vars

C32_Witness ==
    /\ call.pc = "returned" /\ FileCall /\ ~parser.strict
    /\ Len(call.lines) = 3 /\ call.lines[2].kind = "blank"
    /\ parser.pages = <<>>
    /\ parser.errors = <<Diag("Invalid JSON", 3, -1)>>

\* C33: the uncompressed bytes generate() returned for a generator of N
\* pages are N+1 lines, each one JSON record, with no empty line at the
\* end; record 0 is an object whose one key is "collection", and record i
\* is the i-th page of the generator, in the order the pages were added.
C33_OutputRecords ==
    (FromGenerate /\ emitted.compress = "None")
    => LET text == file.data.text
           N == Len(emitted.gen.pages)
       IN  /\ N >= 1
           /\ Len(text) = N + 1
           /\ \A k \in DOMAIN text : text[k].kind = "json"
           /\ IsObj(loads(text[1]).val)
           /\ DOMAIN loads(text[1]).val.v = {"collection"}
           /\ IsObj(EmittedCollection)
           /\ \A i \in 1..N : loads(text[i + 1]).val = emitted.gen.pages[i]

C33_Witness ==
    /\ FromGenerate /\ emitted.compress = "None" /\ gencall.op = "generate"
    /\ Len(gen.pages) = 2 /\ gen.pages[1] = WidgetPage /\ gen.pages[2] # WidgetPage
    /\ Len(file.data.text) = 3
    /\ loads(file.data.text[2]).val = WidgetPage
    /\ loads(file.data.text[3]).val = gen.pages[2]

\* C34: after add_page the last page of the generator holds the six
\* required fields, holds author and robots under their keys exactly when
\* the caller gave a value other than None, with the value given, and holds
\* none of the optional keys the caller left out.
C34_OptionalStored ==
    gencall.op = "add_page"
    => LET page == gen.pages[Len(gen.pages)]
       IN  /\ PageRequired \subseteq DOMAIN page.v
           /\ "author" \in DOMAIN page.v <=> gencall.author # JNull
           /\ "robots" \in DOMAIN page.v <=> gencall.robots # JNull
           /\ gencall.author # JNull => PyGet(page, "author") = gencall.author
           /\ gencall.robots # JNull => PyGet(page, "robots") = gencall.robots
           /\ DOMAIN page.v \cap {"published", "canonical", "schema"} = {}

\* ------------------------------------------- the scp-validate command
\* A call SCPParser(**kwargs): __init__ takes the keyword strict and no
\* other; an unexpected keyword is a TypeError.
SCPParser_new(kwargs, strict) ==
    IF kwargs \subseteq {"strict"}
    THEN [exc |-> "", val |-> SCPParser_init(strict)]
    ELSE [exc |-> "TypeError", val |-> SCPParser_init(FALSE)]

\* scp_parser.parse_file(args.file), the whole call on the parser p.
parse_file(p, data) == RunLoop(ParseFileHeader(p, data))

\* main() of scp-validate and the interpreter's exit: the exit code, the
\* exception that left main (if any), and what was printed.  An exception
\* that leaves main ends the process with a traceback and code 1.
main(f, strict, no_validate, quiet) ==
    IF ~f.exists
    THEN [exit |-> 1, exc |-> "", stdout |-> <<>>, stderr |-> <<"File not found">>]
    ELSE LET scp_parser == SCPParser_new({"validate", "strict"}, strict)
             r == parse_file(scp_parser.val, f.data)
         IN  IF scp_parser.exc # ""
             THEN [exit |-> 1, exc |-> scp_parser.exc, stdout |-> <<>>,
                   stderr |-> <<"Traceback">>]
             ELSE IF r.call.pc = "raised"
             THEN [exit |-> 1, exc |-> "", stdout |-> <<>>,
                   stderr |-> IF quiet THEN <<>> ELSE <<"Validation failed">>]
             ELSE [exit |-> 0, exc |-> "",
                   stdout |-> IF quiet THEN <<>> ELSE <<"Valid SCP collection">>,
                   stderr |-> r.p.errors]

\* One run of the command on the file at hand (or on a path without file).
ScpValidate ==
    /\ fcall.pc = "idle"
    /\ \E strict \in BOOLEAN, no_validate \in BOOLEAN, quiet \in BOOLEAN :
         LET r == main(file, strict, no_validate, quiet)
         IN  fcall' = [fn |-> "scp_validate", pc |-> "exited", exists |-> file.exists,
                       data |-> file.data, strict |-> strict, no_validate |-> no_validate,
                       quiet |-> quiet, exit |-> r.exit, exc |-> r.exc,
                       stdout |-> r.stdout, stderr |-> r.stderr]
    /\ UNCHANGED <<gen, gencall, file, emitted, parser, call, calls, codec>>

NextTool ==
    \/ WriteFile
    \/ ScpValidate

SpecTool == Init /\ [][NextTool]_vars

\* C35: a run of scp-validate on an existing file exits with code 0, with
\* no exception leaving main, when parse_file in the chosen mode returns for
\* the file, printing the summary unless quiet and the diagnostics on
\* stderr; it exits non-zero when parse_file raises.
C35_ValidatorExitCode ==
    (fcall.fn = "scp_validate" /\ fcall.pc = "exited" /\ fcall.exists)
    => LET r == FreshOutcome("file", fcall.strict, fcall.data)
       IN  IF r.call.pc = "raised"
           THEN fcall.exit # 0
           ELSE /\ fcall.exit = 0 /\ fcall.exc = ""
                /\ ~fcall.quiet => fcall.stdout # <<>>
                /\ fcall.stderr = r.p.errors

\* The diagnostics of the list that name line n and satisfy Is.
DiagsAt(errors, n, Is(_)) == {i \in DOMAIN errors : errors[i].line = n /\ Is(errors[i])}

UnknownBlockDiag(d) == d.kind = "Unknown content block type"

\* C36: after a lenient parse_file on a parser that had parsed nothing has
\* returned, every non-blank page record either was accepted and has no
\* skip diagnostic or was not accepted and has exactly one; the pages
\* returned and the skip diagnostics together are as many as the non-blank
\* page records; and every unknown-block diagnostic names an accepted
\* record.
C36_RecordAccounting ==
    (call.pc = "returned" /\ FileCall /\ ~parser.strict /\ calls = 1)
    => LET lines == call.lines
           nonblank == {n \in 2..Len(lines) : lines[n].kind # "blank"}
           skips == SelectSeq(parser.errors, RecordFailure)
       IN  /\ \A n \in nonblank :
                Cardinality(DiagsAt(parser.errors, n, RecordFailure))
                  = IF Accepted("file", lines[n]) THEN 0 ELSE 1
           /\ Len(parser.pages) = Cardinality({n \in nonblank : Accepted("file", lines[n])})
           /\ Len(parser.pages) + Len(skips) = Cardinality(nonblank)
           /\ \A i \in DOMAIN skips : skips[i].line \in nonblank
           /\ \A i \in DOMAIN parser.errors :
                UnknownBlockDiag(parser.errors[i])
                  => /\ parser.errors[i].line \in nonblank
                     /\ Accepted("file", lines[parser.errors[i].line])

C36_Witness ==
    /\ call.pc = "returned" /\ FileCall /\ ~parser.strict /\ calls = 1
    /\ Len(call.lines) = 3
    /\ Len(parser.pages) = 1 /\ parser.pages[1].raw = WidgetPage
    /\ Cardinality(DiagsAt(parser.errors, 2, RecordFailure)) = 1
    /\ Cardinality(DiagsAt(parser.errors, 3, UnknownBlockDiag)) = 2

IsPrefix(s, t) == Len(s) <= Len(t) /\ \A i \in DOMAIN s : s[i] = t[i]

\* The document of the last parse_file call: its lines, its header record
\* and the page records of it that parse_file accepts.
LastLines == StripSplit(TextOf(file.data))
LastHeader == loads(LastLines[1]).val
LastAccepted == AcceptedBefore("file", LastLines, Len(LastLines) + 1)

\* C37: when a parse_file call on a parser, fresh or used, has ended, the
\* pages attribute holds pages of the document of that call only (all the
\* accepted ones when it returned, the ones read before the failure when
\* it raised) and never pages of an earlier document, and when it returned
\* or when the metadata attribute holds the header of that document the two
\* attributes belong to that one document.
C37_AttributesOneDocument ==
    (call.pc \in {"returned", "raised"} /\ FileCall)
    => LET raws == [i \in DOMAIN parser.pages |-> parser.pages[i].raw]
       IN  /\ IsPrefix(raws, LastAccepted)
           /\ call.pc = "returned" => parser.metadata.raw = LastHeader /\ raws = LastAccepted

\* --------------------------------------- the generator, called repeatedly
\* A later reading of the clock.
Later == "2025-01-16T10:00:00Z"

\* A generate() that hands its pages over and keeps none.
GenerateAt_ConsumesPages ==
    /\ Building /\ gen.state = "ready"
    /\ \E include_checksum \in BOOLEAN, compress \in {"gzip", "None", "brotli"},
          now \in (IF emitted.by = "generate" THEN {Now, Later} ELSE {Now}) :
         LET r == generate(gen, now, include_checksum, compress, 6)
         IN  /\ gencall' = [op |-> "generate", exc |-> r.exc, msg |-> r.msg]
             /\ IF r.exc = ""
                THEN /\ file' = [exists |-> TRUE, data |-> r.data]
                     /\ emitted' = [by |-> "generate", gen |-> gen,
                                    include_checksum |-> include_checksum,
                                    compress |-> compress]
                     /\ gen' = [gen EXCEPT !.pages = <<>>]
                ELSE UNCHANGED <<file, emitted, gen>>
    /\ UNCHANGED <<parser, call, calls, codec, fcall>>

\* generate() at the time the clock shows: the first call at Now, a later
\* call at the same reading or a later one.
GenerateAt ==
    /\ Building /\ gen.state = "ready"
    /\ \E include_checksum \in BOOLEAN, compress \in {"gzip", "None", "brotli"},
          now \in (IF emitted.by = "generate" THEN {Now, Later} ELSE {Now}) :
         LET r == generate(gen, now, include_checksum, compress, 6)
         IN  /\ gencall' = [op |-> "generate", exc |-> r.exc, msg |-> r.msg]
             /\ IF r.exc = ""
                THEN /\ file' = [exists |-> TRUE, data |-> r.data]
                     /\ emitted' = [by |-> "generate", gen |-> gen,
                                    include_checksum |-> include_checksum,
                                    compress |-> compress]
                ELSE UNCHANGED <<file, emitted>>
    /\ UNCHANGED <<gen, parser, call, calls, codec, fcall>>

NextRegen ==
    \/ Construct
    \/ AddPage
    \/ AddPageDict
    \/ GenerateAt

SpecRegen == Init /\ [][NextRegen]_vars

\* The collection object of a header line without the timestamp and the
\* checksum.
Timeless(line) ==
    DelKey(DelKey(loads(line).val.v["collection"], "generated"), "checksum")

\* C38: a call of generate(), failed or not, leaves the generator as it
\* was; the bytes it returns hold, for each stored page in order, that
\* page's record and the generator's id, section, type, since and version;
\* when the previous call was made on the same pages the two outputs have
\* the same page records and headers that differ at most in generated and
\* checksum; and no other operation changes or removes a stored page.
C38_GenerateLeavesGenerator ==
    [][/\ gen.state = "ready"
          => /\ IsPrefix(gen.pages, gen'.pages)
             /\ [gen' EXCEPT !.pages = <<>>] = [gen EXCEPT !.pages = <<>>]
       /\ GenerateStep
          => /\ gen' = gen
             /\ gencall'.exc = ""
                  => LET text == TextOf(file'.data)
                     IN  /\ Tail(text) = [i \in DOMAIN gen.pages |-> dumps(gen.pages[i])]
                         /\ LET coll == loads(text[1]).val.v["collection"]
                            IN  /\ coll.v["id"] = JStr(gen.collection_id)
                                /\ coll.v["section"] = JStr(gen.section)
                                /\ coll.v["type"] = JStr(gen.collection_type)
                                /\ coll.v["version"] = JStr(gen.version)
                                /\ "since" \in DOMAIN coll.v => coll.v["since"] = gen.since
                         /\ (emitted.by = "generate" /\ emitted.gen = gen)
                              => /\ Tail(text) = Tail(TextOf(file.data))
                                 /\ Timeless(text[1]) = Timeless(TextOf(file.data)[1])]_vars

C38_Witness ==
    /\ FromGenerate /\ gencall.op = "generate" /\ gencall.exc = ""
    /\ EmittedCollection.v["generated"] = JStr(Later)
    /\ gen = emitted.gen /\ Len(gen.pages) = 2
    /\ "checksum" \in DOMAIN EmittedCollection.v

\* ------------------------------------- the content-block loop on its own
\* Blocks handed to the loop: a sound known block, a heading of level 7, a
\* heading without its sub-fields, blocks of unknown type (a string, a
\* number), a block without a type, values that are not objects, and a
\* block whose type is a list.
LoopBlocks ==
    { TextBlock, HeadingBlock(7), JObj([type |-> JStr("heading")]), WidgetBlock,
      JObj([type |-> JNum(5)]), JObj([text |-> JStr("Hello")]), JNum(5), JStr("text"),
      JObj([type |-> JArr(<<JStr("text")>>)]) }

LoopPages ==
    {PageDict("https://example.com/a", JArr(content)) :
       content \in SeqsUpTo(LoopBlocks, MaxBlocks)}

RECURSIVE BlockLoopFrom(_, _, _, _)
\* A loop without the handler `except ValidationError: pass`.
BlockLoopFrom_Propagates(content, block_idx, line_num, errors) ==
    IF block_idx >= Len(content) THEN [exc |-> "", errors |-> errors]
    ELSE LET block == content[block_idx + 1]
             r == validate_content_block(block)
         IN  IF ~(IsObj(block) /\ "type" \in DOMAIN block.v)
             THEN BlockLoopFrom(content, block_idx + 1, line_num, errors)
             ELSE IF r.exc # "" THEN [exc |-> r.exc, errors |-> errors]
             ELSE IF ~r.val
             THEN BlockLoopFrom(content, block_idx + 1, line_num,
                                Append(errors, Diag("Unknown content block type",
                                                    line_num, block_idx)))
             ELSE BlockLoopFrom(content, block_idx + 1, line_num, errors)

\* The loop over page_dict["content"] from block_idx on: the diagnostics it
\* appends to errors and the exception that leaves it, if any.  A block
\* that is no dict or has no "type" is passed over; a ValidationError of
\* validate_content_block is swallowed; any other exception leaves the loop.
BlockLoopFrom(content, block_idx, line_num, errors) ==
    IF block_idx >= Len(content) THEN [exc |-> "", errors |-> errors]
    ELSE LET block == content[block_idx + 1]
             r == validate_content_block(block)
         IN  IF ~(IsObj(block) /\ "type" \in DOMAIN block.v)
             THEN BlockLoopFrom(content, block_idx + 1, line_num, errors)
             ELSE IF r.exc = "ValidationError"
             THEN BlockLoopFrom(content, block_idx + 1, line_num, errors)
             ELSE IF r.exc # "" THEN [exc |-> r.exc, errors |-> errors]
             ELSE IF ~r.val
             THEN BlockLoopFrom(content, block_idx + 1, line_num,
                                Append(errors, Diag("Unknown content block type",
                                                    line_num, block_idx)))
             ELSE BlockLoopFrom(content, block_idx + 1, line_num, errors)

\* One run of the loop, for the record at line_num.
BlockLoop ==
    /\ fcall.pc = "idle"
    /\ \E page_dict \in LoopPages, line_num \in 2..(MaxLines + 1) :
         LET r == BlockLoopFrom(page_dict.v["content"].v, 0, line_num, <<>>)
         IN  fcall' = [fn |-> "block_loop", pc |-> IF r.exc = "" THEN "returned" ELSE "raised",
                       arg |-> page_dict, line |-> line_num, exc |-> r.exc,
                       errors |-> r.errors]
    /\ UNCHANGED <<gen, gencall, file, emitted, parser, call, calls, codec>>

NextLoop ==
    \/ ValidatePage
    \/ ValidateContentBlock
    \/ BlockLoop

SpecLoop == InitFn /\ [][NextLoop]_vars

\* A run of the content-block loop that has ended, a block the loop hands
\* to validate_content_block, and a block of unknown type.
LoopCall == fcall.fn = "block_loop" /\ fcall.pc \in {"returned", "raised"}
Classified(block) == IsObj(block) /\ "type" \in DOMAIN block.v
UnknownType(block) ==
    /\ Classified(block)
    /\ block.v["type"].jt \notin {"array", "object"}
    /\ block.v["type"] \notin {JStr(t) : t \in KnownTypes}

====
